---- MODULE Spec2Model ----
(***************************************************************************)
(* Ingestion pipeline of the Nazim Hikmet digital twin: document           *)
(* validation layer, ETL store and dedupe stages, crawler registry,        *)
(* crawler contract (fetch with retries, payload finalization, safe mode). *)
(*                                                                         *)
(* Conventions of the model                                                *)
(*   - a Python dict is a function whose DOMAIN is the set of keys present *)
(*   - str fields hold strings, "" is the empty string; None is modelled   *)
(*     as the empty value of the field (both are falsy in the code)        *)
(*   - text_full and summary hold sequences of characters (small naturals),*)
(*     << >> is the empty text, so that slicing text[:250] is computed     *)
(*   - timestamps are naturals ordered like the ISO strings they stand     *)
(*     for; 0 is the empty timestamp                                       *)
(***************************************************************************)
EXTENDS Integers, Sequences, FiniteSets, TLC

VARIABLES
    \* --- persistent store (src/etl/steps/store.py) ---
    collection,     \* the Mongo collection "documents": sequence of stored documents
    clock,          \* last value read from the wall clock (_now_iso)
    calls,          \* number of store_records calls made so far
    lastBatch,      \* records argument of the latest store_records call
    lastOutcome,    \* "none" | "returned" | "ValidationError"
    lastInserted,   \* value returned by the latest store_records call
    repeated,       \* the latest call stored the batch that the call before it had stored
    \* --- validation layer (src/domain/documents.py) ---
    docRecord,      \* raw record handed to the validation layer
    docClass,       \* "" when built through build_document, else the class constructed directly
    docPc,          \* "pending" | "built"
    docResult,      \* the outcome of the construction once built
    \* --- ETL dedupe stage (src/etl/steps/dedup.py) ---
    dedupInput,     \* batch handed to dedupe_records
    dedupPc,        \* "pending" | "done"
    dedupOutput,    \* list returned by dedupe_records
    \* --- crawler registry (src/crawler/dispatcher.py) ---
    CRAWLER_REGISTRY,   \* (kind, normalized source name) -> crawler class
    _DISCOVERY_DONE,    \* module flag of _ensure_discovery
    crawlersImported,   \* the modules of src/crawler/crawlers have been imported
    registrations,      \* every register_crawler call so far, in order, as it was made
    lastResolve,        \* the latest resolve_crawler call, its outcome, and the
                        \* number of registrations made before it returned
    discoveryRuns,      \* how often _ensure_discovery went past its flag
    lastAvailable,      \* the latest available_crawlers call and what it returned
    \* --- crawler extraction (src/crawler/base.py, crawlers/pdf_poems.py) ---
    crawler,        \* the crawler instance: class, safe_mode, _seen_hashes
    exLink,         \* link handed to extract
    exUser,         \* user handed to extract
    exPage,         \* the records the parser yields for the content behind the link
    exCalls,        \* number of extract calls made so far
    exOutcome,      \* "none" | "returned" | "raised"
    exPayloads,     \* list returned by the latest extract call
    \* --- safe-mode resolution (src/config/sources.py, src/zen/steps/crawl.py) ---
    smEnv,          \* environment variable SAFE_MODE, None when unset
    smConfig,       \* top-level SAFE_MODE of the sources configuration
    smPipeline,     \* pipeline_safe_mode argument of crawl_links
    smSource,       \* the source definition
    smPc,           \* "start" | "loaded" | "resolved"
    smPayload,      \* value returned by get_or_create_source
    smResult,       \* safe_mode that crawl_links hands to create_crawler
    \* --- BaseCrawler.fetch (src/crawler/base.py) ---
    fetchConfig,    \* max_retries, backoff_base, backoff_factor of the crawler
    fetchPc,        \* "idle" | "loop" | "returned" | "raised"
    attempt,        \* local variable attempt of fetch
    httpCalls,      \* number of http_get calls made by this fetch
    sleeps,         \* arguments of the time.sleep calls made by this fetch, in order
    fetchOutcome,   \* the http_get call whose response was returned or whose
                    \* error was raised; 0 for none, -1 for the RuntimeError
    \* --- a crawl run (src/zen/steps/crawl.py) ---
    runConfig,      \* the source definitions of the configuration file, in order
    runRequested,   \* source_names of the run, empty for all sources
    runPc,          \* "start" | "source" | "links" | "done" | "KeyError"
    runSources,     \* the sources handed to crawl_links
    runSource,      \* position in runSources of the source being processed
    runLinks,       \* links of the source being processed
    runLink,        \* position in runLinks of the link to extract next
    runDocuments,   \* local variable documents of crawl_links
    runSummary,     \* local variable summary of crawl_links
    runErrors,      \* local variable errors of crawl_links
    extractLog,     \* every extract call of the run: source name, link, outcome
    \* --- PDF segmentation (src/crawler/crawlers/pdf_poems.py) ---
    pdfLines,       \* the line stream handed to _split_poems
    pdfPc,          \* "pending" | "done"
    pdfPoems,       \* the works returned by _split_poems
    \* --- CID repair (PdfPoemsCrawler._replace_cid_sequences) ---
    cidText,        \* the text handed to _replace_cid_sequences
    cidPc,          \* "pending" | "done"
    cidOutput,      \* the text it returned
    \* --- PdfPoemsCrawler instances (src/crawler/crawlers/pdf_poems.py) ---
    pdfInstances,   \* instance -> its object: cls, safe_mode, _seen_hashes
    pdfReturned,    \* instance -> every payload its extract calls returned, in order
    pdfCalls,       \* number of extract calls made so far
    pdfLast,        \* the latest extract call: instance, link, poems, fetched
    \* --- content hash (src/crawler/utils/text.py, crawlers/poem_pages.py) ---
    hashTriple,     \* the (author, title, text_full) about to be hashed
    noiseSteps,     \* how many times its rendering changed since the start
    hashLog,        \* every doc_hash computed so far, with the triple hashed
    \* --- static list crawler (src/crawler/crawlers/wiki_lists.py) ---
    listExtract,    \* config["extract"]: section_css, year_regex
    listItems,      \* the text of every element that section_css selects, in order
    listPc,         \* "pending" | "done"
    listDocuments,  \* the records parse returned
    \* --- PDF download (PdfPoemsCrawler.fetch_bytes) ---
    fbConfig,       \* the source configuration: fetch_retries, allow_http_fallback
    fbUrl,          \* the URL the download was asked for
    request_url,    \* the URL of the fetch_bytes call that is running
    allow_fallback, \* the allow_fallback argument of that call
    fbAttempt,      \* loop variable attempt of that call
    last_exc,       \* last_exc of that call ("<None>" before any failure)
    fbLog,          \* every session.get made for the download: url, ok, body or error
    fbOutcome,      \* "none" | "returned" | "raised", with the body or the error
    \* --- index crawl (PoemPageCrawler._parse_index) ---
    idxConfig,      \* paging: max_pages, next_css
    idxSite,        \* the site: page -> href of its next link; page -> hrefs of its cards
    page_url,       \* URL of the index page held in page_html
    processed_pages,    \* counter of the while loop
    visited,        \* index-page URLs processed so far
    seen_detail_urls,   \* normalized detail URLs met so far
    idxPc,          \* "loop" | "done"
    idxPageFetches, \* every index page fetched, the seed page first
    idxProcessed,   \* every index page processed, in order
    idxDetailFetches,   \* every self.fetch(detail_url) call: url, ok
    idxDocuments,   \* documents
    \* --- news archive (NewsCrawler.parse) ---
    newsConfig,     \* extract.fields: is full_css configured
    newsCards,      \* the cards of the archive page, each with its detail page
    newsPc,         \* "start" | "done"
    newsFetched,    \* detail URLs passed to self.fetch, in order
    newsDocuments,  \* documents
    \* --- title detection (PdfPoemsCrawler._detect_title_indices) ---
    tdLines,        \* lines, each one character by character
    tdPc,           \* "start" | "done"
    tdIndices,      \* indices, 1-based
    \* --- ETL normalize stage (normalize_records) ---
    nzRecords,      \* the batch held by the caller
    nzPc,           \* "start" | "done"
    nzNormalized,   \* the list returned
    \* --- one crawler from creation to close (crawl_links) ---
    lcCrawler,      \* the crawler: its class, _driver and _session
    lcLinks,        \* number of links of the source
    lcLink,         \* position in the loop over the links
    lcPc,           \* "links" | "closed"
    lcLog,          \* per link: did extract return
    lcCloses,       \* number of crawler.close() calls
    \* --- mkhash on two tuples of parts ---
    mhFirst,        \* (url, title, body) of one record
    mhSecond,       \* (url, title, body) of another record
    mhPc,           \* "start" | "done"
    mhHashes        \* the two hashes

storeVars == <<collection, clock, calls, lastBatch, lastOutcome, lastInserted, repeated>>

docVars == <<docRecord, docClass, docPc, docResult>>

dedupVars == <<dedupInput, dedupPc, dedupOutput>>

registryVars ==
    <<CRAWLER_REGISTRY, _DISCOVERY_DONE, crawlersImported, registrations, lastResolve,
      discoveryRuns, lastAvailable>>

extractVars == <<crawler, exLink, exUser, exPage, exCalls, exOutcome, exPayloads>>

safeModeVars == <<smEnv, smConfig, smPipeline, smSource, smPc, smPayload, smResult>>

fetchVars == <<fetchConfig, fetchPc, attempt, httpCalls, sleeps, fetchOutcome>>

pdfVars == <<pdfLines, pdfPc, pdfPoems>>

cidVars == <<cidText, cidPc, cidOutput>>

pdfRunVars == <<pdfInstances, pdfReturned, pdfCalls, pdfLast>>

hashVars == <<hashTriple, noiseSteps, hashLog>>

listVars == <<listExtract, listItems, listPc, listDocuments>>

indexVars ==
    <<idxConfig, idxSite, page_url, processed_pages, visited, seen_detail_urls, idxPc,
      idxPageFetches, idxProcessed, idxDetailFetches, idxDocuments>>

newsVars == <<newsConfig, newsCards, newsPc, newsFetched, newsDocuments>>

titleVars == <<tdLines, tdPc, tdIndices>>

normalizeVars == <<nzRecords, nzPc, nzNormalized>>

lifeVars == <<lcCrawler, lcLinks, lcLink, lcPc, lcLog, lcCloses>>

mkhashVars == <<mhFirst, mhSecond, mhPc, mhHashes>>

fetchBytesVars ==
    <<fbConfig, fbUrl, request_url, allow_fallback, fbAttempt, last_exc, fbLog, fbOutcome>>

runVars == <<runConfig, runRequested, runPc, runSources, runSource, runLinks, runLink,
             runDocuments, runSummary, runErrors, extractLog>>

vars == <<storeVars, docVars, dedupVars, registryVars,
          extractVars, safeModeVars, fetchVars, runVars,
          pdfVars, cidVars, pdfRunVars, hashVars,
          listVars, fetchBytesVars, indexVars, newsVars,
          titleVars, normalizeVars, lifeVars, mkhashVars>>

----------------------------------------------------------------------------
(* Python dict helpers *)

EmptyDict == [f \in {} |-> 0]

TextFields == {"text_full", "summary"}
TimeFields == {"created_at", "updated_at"}

\* the falsy value of a field (Python "" / None)
EmptyOf(f) == IF f \in TextFields THEN << >> ELSE IF f \in TimeFields THEN 0 ELSE ""

\* bool(d.get(f))
Truthy(d, f) == f \in DOMAIN d /\ d[f] # EmptyOf(f)

\* d.get(f); an absent key reads as None, modelled by the empty value
Get(d, f) == IF f \in DOMAIN d THEN d[f] ELSE EmptyOf(f)

\* d[f] = v
Put(d, f, v) == (f :> v) @@ d

\* d.setdefault(f, v)
SetDefault(d, f, v) == IF f \in DOMAIN d THEN d ELSE Put(d, f, v)

\* d.pop(f, None): the dict without the key
Pop(d, f) == [g \in DOMAIN d \ {f} |-> d[g]]

\* a one-key dict when present, the empty dict otherwise
Opt(f, v, present) == IF present THEN f :> v ELSE EmptyDict

----------------------------------------------------------------------------
(* Bounds of the model *)

MaxBatch == 2       \* longest batch passed to one store_records call
MaxCalls == 2       \* number of store_records calls in one behaviour
MaxClock == 2       \* largest wall-clock reading
MaxDedup == 3       \* longest batch passed to dedupe_records
MaxRegistrations == 2   \* register_crawler calls made by the application
MaxParsed == 2      \* most records a parser yields for one link
MaxExtracts == 2    \* extract calls made on one crawler
MaxRetries == 3     \* largest max_retries of a crawler (the class default is 3)
MaxSources == 2     \* most source definitions in the configuration file
MaxLines == 5       \* longest line stream handed to _split_poems
MaxText == 6        \* longest text handed to _replace_cid_sequences, in pieces
MaxChars == 2       \* longest body of a hashed triple at the start, in characters
MaxNoise == 1       \* most changes of rendering applied to a triple
MaxHashes == 2      \* most hashes computed for a triple
MaxItems == 2       \* most list items on a page
MaxFetchRetries == 2    \* largest fetch_retries of a PDF source
MaxPages == 2       \* largest max_pages of a paginated source
MaxCards == 2       \* most cards on an index page
MaxNewsCards == 2   \* most cards on a news archive page
MaxTitleLines == 3  \* most lines of a text searched for titles
MaxNormBatch == 2   \* longest batch passed to normalize_records
MaxLinks == 3       \* most links of one source
MaxPartLen == 1     \* longest part passed to mkhash

----------------------------------------------------------------------------
(* Document validation layer: src/domain/documents.py *)

\* the content kinds with a document class
Kinds == {"poem_page", "pdf_poems", "poem", "book", "novel", "play", "news"}

DocClasses == {"PoemPageDocument", "PdfPoemDocument", "PoemListDocument",
               "BookDocument", "NovelDocument", "PlayDocument", "NewsDocument"}

\* class attribute `kind`
ClassKind(cls) ==
    CASE cls = "PoemPageDocument" -> "poem_page"
      [] cls = "PdfPoemDocument"  -> "pdf_poems"
      [] cls = "PoemListDocument" -> "poem"
      [] cls = "BookDocument"     -> "book"
      [] cls = "NovelDocument"    -> "novel"
      [] cls = "PlayDocument"     -> "play"
      [] cls = "NewsDocument"     -> "news"

\* DOCUMENT_REGISTRY: {cls.kind: cls}
DOCUMENT_REGISTRY ==
    ("poem_page" :> "PoemPageDocument") @@ ("pdf_poems" :> "PdfPoemDocument")
    @@ ("poem" :> "PoemListDocument") @@ ("book" :> "BookDocument")
    @@ ("novel" :> "NovelDocument") @@ ("play" :> "PlayDocument")
    @@ ("news" :> "NewsDocument")

\* class attributes required_fields and upsert_fields (no subclass overrides them)
required_fields == <<"title">>
upsert_fields == <<"kind", "source_id">>

\* the classes whose validate() override also demands text_full or summary
OverridesValidate(cls) == cls \in {"PoemPageDocument", "PdfPoemDocument", "NewsDocument"}

ValidationError(msg) == [ok |-> FALSE, error |-> "ValidationError", message |-> msg]

\* the `source` sub-object assembled by _apply_defaults
SourceMeta(data) ==
    LET given == IF "source" \in DOMAIN data THEN data["source"] ELSE EmptyDict
        name  == Opt("name", Get(data, "source_name"),
                     Truthy(data, "source_name") /\ ~Truthy(given, "name"))
        url   == Opt("url", Get(data, "source_url"),
                     Truthy(data, "source_url") /\ ~Truthy(given, "url"))
    IN  name @@ url @@ given

\* faulty derivation: the source URL is preferred to the content hash
DeriveSourceId_url_first(data) ==
    IF Truthy(data, "source_id") THEN data["source_id"]
    ELSE IF Truthy(data, "source_url") THEN data["source_url"]
    ELSE Get(data, "hash")

\* data.get("source_id") or data.get("hash") or data.get("source_url")
DeriveSourceId(data) ==
    IF Truthy(data, "source_id") THEN data["source_id"]
    ELSE IF Truthy(data, "hash") THEN data["hash"]
    ELSE Get(data, "source_url")

\* NoSQLBaseDocument._apply_defaults; tCreated and tUpdated are its two _now_iso() reads
_apply_defaults(cls, document, tCreated, tUpdated) ==
    LET data      == SetDefault(document, "kind", ClassKind(cls))
        source_id == DeriveSourceId(data)
        created   == IF Truthy(data, "created_at") THEN data["created_at"] ELSE tCreated
    IN  IF source_id = ""
        THEN ValidationError("requires a hash or source_id")
        ELSE [ok |-> TRUE,
              data |-> Put(Put(Put(Put(data, "source_id", source_id),
                                   "source", SourceMeta(data)),
                               "created_at", created),
                           "updated_at", tUpdated)]

\* faulty validate: no class demands a body
validate_without_body_check(cls, data) ==
    IF ~Truthy(data, "title") THEN ValidationError("missing required fields")
    ELSE IF ~Truthy(data, "kind") \/ ~Truthy(data, "source_id")
         THEN ValidationError("missing upsert field")
    ELSE [ok |-> TRUE, cls |-> cls, data |-> data]

\* NoSQLBaseDocument.validate and the overrides of the poem_page, pdf_poems and news classes
validate(cls, data) ==
    LET missing_required == {i \in DOMAIN required_fields : ~Truthy(data, required_fields[i])}
        missing_upsert   == {i \in DOMAIN upsert_fields : ~Truthy(data, upsert_fields[i])}
    IN  IF missing_required # {} THEN ValidationError("missing required fields")
        ELSE IF missing_upsert # {} THEN ValidationError("missing upsert field")
        ELSE IF OverridesValidate(cls)
                /\ ~(Truthy(data, "text_full") \/ Truthy(data, "summary"))
             THEN ValidationError("requires text_full or summary content")
        ELSE [ok |-> TRUE, cls |-> cls, data |-> data]

\* NoSQLBaseDocument.__init__ / from_payload
NewDocument(cls, payload, tCreated, tUpdated) ==
    LET d == _apply_defaults(cls, payload, tCreated, tUpdated)
    IN  IF d.ok THEN validate(cls, d.data) ELSE d

\* build_document
build_document(record, tCreated, tUpdated) ==
    IF ~Truthy(record, "kind") THEN ValidationError("Record is missing kind")
    ELSE IF record["kind"] \notin DOMAIN DOCUMENT_REGISTRY
         THEN ValidationError("No document registered for kind")
    ELSE NewDocument(DOCUMENT_REGISTRY[record["kind"]], record, tCreated, tUpdated)

\* faulty upsert_filter: updated_at is taken for an upsert field
upsert_filter_with_updated_at(doc) ==
    [f \in {"kind", "source_id", "updated_at"} |-> doc.data[f]]

\* NoSQLBaseDocument.upsert_filter
upsert_filter(doc) == [f \in {upsert_fields[i] : i \in DOMAIN upsert_fields} |-> doc.data[f]]

\* NoSQLBaseDocument.to_mongo; t is its _now_iso() read
to_mongo(doc, t) == Put(doc.data, "updated_at", t)

----------------------------------------------------------------------------
(* Raw records: the inputs of the validation layer and of the ETL stages *)

\* markers of a key that the record does not carry
NoStr == "<absent>"
NoText == << -1 >>
NoTime == -1

MkRecord(kind, title, hash, source_url, source_id, text_full, summary, created_at) ==
    Opt("kind", kind, kind # NoStr) @@ Opt("title", title, title # NoStr)
    @@ Opt("hash", hash, hash # NoStr) @@ Opt("source_url", source_url, source_url # NoStr)
    @@ Opt("source_id", source_id, source_id # NoStr)
    @@ Opt("text_full", text_full, text_full # NoText)
    @@ Opt("summary", summary, summary # NoText)
    @@ Opt("created_at", created_at, created_at # NoTime)

\* all sequences over S of length at most n
SeqsUpTo(S, n) == UNION {[1..k -> S] : k \in 0..n}

\* non-decreasing clock readings t[1..n], none before `lo`
ClockReads(n, lo) ==
    {t \in [1..n -> lo..MaxClock] : \A i \in 1..(n - 1) : t[i] <= t[i + 1]}

----------------------------------------------------------------------------
(* ETL store stage: src/etl/steps/store.py *)

\* records handed to store_records: a poem page with a body, the same poem
\* page (same upsert key) with a summary only and its own creation stamp, and
\* a list entry of another kind with the same hash
StoreRecords ==
    { MkRecord("poem_page", "T1", "h1", NoStr, NoStr, <<1>>, NoText, NoTime),
      MkRecord("poem_page", "T1", "h1", NoStr, NoStr, NoText, <<2>>, MaxClock),
      MkRecord("poem", "T1", "h1", NoStr, NoStr, NoText, NoText, NoTime) }

\* the documents of `coll` selected by an equality filter
Matching(coll, filter) ==
    {i \in DOMAIN coll :
        \A f \in DOMAIN filter : f \in DOMAIN coll[i] /\ coll[i][f] = filter[f]}

\* Collection.update_one(filter, {"$set": set, "$setOnInsert": setOnInsert}, upsert=True)
update_one(coll, filter, set, setOnInsert) ==
    LET hits == Matching(coll, filter)
    IN  IF hits = {}
        THEN [collection |-> Append(coll, setOnInsert @@ set @@ filter), upserted |-> TRUE]
        ELSE LET i == CHOOSE j \in hits : \A k \in hits : j <= k
             IN  [collection |-> [coll EXCEPT ![i] = set @@ coll[i]], upserted |-> FALSE]

\* faulty loop body: created_at is left in the $set payload
StoreOne_sets_created_at(coll, document, t) ==
    update_one(coll, upsert_filter(document), to_mongo(document, t), EmptyDict)

\* faulty loop body: every write is reported as an insert
StoreOne_counts_updates(coll, document, t) ==
    LET full == to_mongo(document, t)
        r    == update_one(coll, upsert_filter(document), Pop(full, "created_at"),
                           Opt("created_at", Get(full, "created_at"), TRUE))
    IN  [collection |-> r.collection, upserted |-> TRUE]

\* faulty loop body: the whole payload goes to $setOnInsert, an update sets nothing
StoreOne_insert_only(coll, document, t) ==
    update_one(coll, upsert_filter(document), EmptyDict, to_mongo(document, t))

\* one turn of the loop `for document in documents` of store_records
StoreOne(coll, document, t) ==
    LET full        == to_mongo(document, t)
        created_at  == Get(full, "created_at")
        payload     == Pop(full, "created_at")
        setOnInsert == Opt("created_at", created_at, created_at # EmptyOf("created_at"))
    IN  update_one(coll, upsert_filter(document), payload, setOnInsert)

RECURSIVE StoreLoop(_, _, _, _, _)
StoreLoop(coll, documents, t, i, inserted) ==
    IF i > Len(documents)
    THEN [collection |-> coll, inserted |-> inserted]
    ELSE LET r == StoreOne(coll, documents[i], t)
         IN  StoreLoop(r.collection, documents, t, i + 1,
                       IF r.upserted THEN inserted + 1 ELSE inserted)

\* store_records(records, mongo_url).  The clock is read while the documents
\* are built (tBuild: the created_at default and the first updated_at) and
\* again while they are written (tWrite: to_mongo's updated_at); it never
\* runs backwards.
store_records(records) ==
    /\ calls < MaxCalls
    /\ calls' = calls + 1
    /\ lastBatch' = records
    /\ repeated' = (calls > 0 /\ lastOutcome = "returned" /\ records = lastBatch)
    /\ IF records = << >>
       THEN /\ lastOutcome' = "returned"
            /\ lastInserted' = 0
            /\ UNCHANGED <<collection, clock>>
       ELSE \E ts \in ClockReads(2, clock) :
              LET tBuild    == ts[1]
                  tWrite    == ts[2]
                  n         == Len(records)
                  documents == [i \in 1..n |-> build_document(records[i], tBuild, tBuild)]
              IN  IF \E i \in 1..n : ~documents[i].ok
                  THEN /\ lastOutcome' = "ValidationError"
                       /\ clock' = tBuild
                       /\ UNCHANGED <<collection, lastInserted>>
                  ELSE LET r == StoreLoop(collection, documents, tWrite, 1, 0)
                       IN  /\ lastOutcome' = "returned"
                           /\ lastInserted' = r.inserted
                           /\ collection' = r.collection
                           /\ clock' = tWrite

StoreInit ==
    /\ collection = << >>
    /\ clock = 1
    /\ calls = 0
    /\ lastBatch = << >>
    /\ lastOutcome = "none"
    /\ lastInserted = 0
    /\ repeated = FALSE

StoreBatches == SeqsUpTo(StoreRecords, MaxBatch)

StoreCall == \E records \in StoreBatches : store_records(records)

----------------------------------------------------------------------------
(* Construction of one document *)

DocRecords ==
    {MkRecord(k, t, h, u, sid, tf, s, c) :
        k \in {NoStr, "", "essay"} \cup Kinds, t \in {NoStr, "", "T1"},
        h \in {NoStr, "", "h1"}, u \in {NoStr, "", "u1"}, sid \in {NoStr, "", "s1"},
        tf \in {NoText, << >>, <<1>>}, s \in {NoText, << >>, <<2>>}, c \in {NoTime}}

DocInit ==
    /\ docRecord \in DocRecords
    /\ docClass = ""
    /\ docPc = "pending"
    /\ docResult = EmptyDict

DocIdle ==
    /\ docRecord = EmptyDict
    /\ docClass = ""
    /\ docPc = "pending"
    /\ docResult = EmptyDict

\* build_document(record)
BuildDocument ==
    /\ docPc = "pending"
    /\ docPc' = "built"
    /\ \E ts \in ClockReads(2, 1) :
         docResult' = build_document(docRecord, ts[1], ts[2])
    /\ UNCHANGED <<docRecord, docClass>>

\* cls(payload), the direct construction of a document class
ConstructDocument ==
    /\ docPc = "pending"
    /\ docPc' = "built"
    /\ \E cls \in DocClasses, ts \in ClockReads(2, 1) :
         /\ docClass' = cls
         /\ docResult' = NewDocument(cls, docRecord, ts[1], ts[2])
    /\ UNCHANGED docRecord

----------------------------------------------------------------------------
(* ETL dedupe stage: src/etl/steps/dedup.py *)

\* records of a batch: with no hash key, an empty hash, or one of two hashes;
\* the title tells apart records that share a hash
DedupRecords ==
    {MkRecord(NoStr, t, h, NoStr, NoStr, NoText, NoText, NoTime) :
        t \in {"T1", "T2"}, h \in {NoStr, "", "h1", "h2"}}

\* faulty loop: records without a hash are compared with each other too
RECURSIVE DedupeLoop_dedupes_hashless(_, _, _, _)
DedupeLoop_dedupes_hashless(records, i, seen, unique) ==
    IF i > Len(records) THEN unique
    ELSE LET record_hash == Get(records[i], "hash")
         IN  IF record_hash \in seen
             THEN DedupeLoop_dedupes_hashless(records, i + 1, seen, unique)
             ELSE DedupeLoop_dedupes_hashless(records, i + 1, seen \cup {record_hash},
                                              Append(unique, records[i]))

\* the loop `for record in records` of dedupe_records
RECURSIVE DedupeLoop(_, _, _, _)
DedupeLoop(records, i, seen, unique) ==
    IF i > Len(records) THEN unique
    ELSE LET record_hash == Get(records[i], "hash")
         IN  IF record_hash = ""
             THEN DedupeLoop(records, i + 1, seen, Append(unique, records[i]))
             ELSE IF record_hash \in seen
             THEN DedupeLoop(records, i + 1, seen, unique)
             ELSE DedupeLoop(records, i + 1, seen \cup {record_hash},
                             Append(unique, records[i]))

\* dedupe_records(records)
dedupe_records(records) == DedupeLoop(records, 1, {}, << >>)

DedupInit ==
    /\ dedupInput \in SeqsUpTo(DedupRecords, MaxDedup)
    /\ dedupPc = "pending"
    /\ dedupOutput = << >>

DedupIdle ==
    /\ dedupInput = << >>
    /\ dedupPc = "pending"
    /\ dedupOutput = << >>

Dedupe ==
    /\ dedupPc = "pending"
    /\ dedupPc' = "done"
    /\ dedupOutput' = dedupe_records(dedupInput)
    /\ UNCHANGED dedupInput

----------------------------------------------------------------------------
(* Crawler registry: src/crawler/dispatcher.py *)

\* Python None as a source name
None == "<None>"

\* source names given to the registry: none, empty, blank, and spellings of
\* one name that differ in case and surrounding blanks, and another name
SourceNames == {None, "", " ", "site", "Site", " site ", "other"}

\* str.strip() on the source names
Strip(name) ==
    CASE name = " "      -> ""
      [] name = " site " -> "site"
      [] OTHER           -> name

\* str.lower() on the source names and on the values of SAFE_MODE
Lower(name) ==
    CASE name = "Site" -> "site"
      [] name = "TRUE" -> "true"
      [] name = "Yes"  -> "yes"
      [] name = "HTTPS://h/p" -> "https://h/p"
      [] OTHER         -> name

\* _normalize_source
_normalize_source(source_name) ==
    IF source_name = None \/ source_name = ""
    THEN None
    ELSE LET normalized == Lower(Strip(source_name))
         IN  IF normalized = "" THEN None ELSE normalized

\* the register_crawler calls that run when the modules of src/crawler/crawlers
\* are imported, in the order pkgutil lists the modules
DiscoveryLog ==
    << [kind |-> "news", crawler_cls |-> "NewsCrawler", source_name |-> None],
       [kind |-> "pdf_poems", crawler_cls |-> "PdfPoemsCrawler", source_name |-> None],
       [kind |-> "poem_page", crawler_cls |-> "PoemPageCrawler", source_name |-> None],
       [kind |-> "poem", crawler_cls |-> "WikiListCrawler", source_name |-> None],
       [kind |-> "book", crawler_cls |-> "BooksCrawler", source_name |-> None],
       [kind |-> "play", crawler_cls |-> "PlaysCrawler", source_name |-> None],
       [kind |-> "novel", crawler_cls |-> "NovelsCrawler", source_name |-> None] >>

\* CRAWLER_REGISTRY[(kind, _normalize_source(source_name))] = crawler_cls
Registered(registry, kind, crawler_cls, source_name) ==
    (<<kind, _normalize_source(source_name)>> :> crawler_cls) @@ registry

\* the registry after the first i registrations of the crawler modules
RECURSIVE ImportCrawlers(_, _)
ImportCrawlers(registry, i) ==
    IF i = 0 THEN registry
    ELSE Registered(ImportCrawlers(registry, i - 1), DiscoveryLog[i].kind,
                    DiscoveryLog[i].crawler_cls, DiscoveryLog[i].source_name)

\* the registry after _ensure_discovery; a module that was imported before is
\* not executed again
Discovered(registry, done, imported) ==
    IF done \/ imported THEN registry
    ELSE ImportCrawlers(registry, Len(DiscoveryLog))

\* faulty lookup: no fall back to the default of the kind
Lookup_without_fallback(registry, kind, source_name) ==
    LET key == <<kind, _normalize_source(source_name)>>
    IN  IF key \in DOMAIN registry THEN registry[key] ELSE "KeyError"

\* the lookup of resolve_crawler, after discovery
Lookup(registry, kind, source_name) ==
    LET key == <<kind, _normalize_source(source_name)>>
    IN  IF key \in DOMAIN registry THEN registry[key]
        ELSE IF <<kind, None>> \in DOMAIN registry THEN registry[<<kind, None>>]
        ELSE "KeyError"

\* kinds asked of the registry: one with a discovered default, one without
RegistryKinds == {"news", "essay"}
CustomCrawlers == {"CustomA", "CustomB"}

RegistryInit ==
    /\ CRAWLER_REGISTRY = EmptyDict
    /\ _DISCOVERY_DONE = FALSE
    /\ crawlersImported = FALSE
    /\ registrations = << >>
    /\ lastResolve = [kind |-> "", source_name |-> None, result |-> "none", at |-> 0]
    /\ discoveryRuns = 0
    /\ lastAvailable = [called |-> FALSE, defaults |-> EmptyDict]

\* register_crawler(kind, crawler_cls, source_name=source_name)
register_crawler(kind, crawler_cls, source_name) ==
    /\ Len(SelectSeq(registrations, LAMBDA r : r.crawler_cls \in CustomCrawlers))
          < MaxRegistrations
    /\ CRAWLER_REGISTRY' = Registered(CRAWLER_REGISTRY, kind, crawler_cls, source_name)
    /\ registrations' = Append(registrations,
          [kind |-> kind, crawler_cls |-> crawler_cls, source_name |-> source_name])
    /\ UNCHANGED <<_DISCOVERY_DONE, crawlersImported, lastResolve, discoveryRuns,
                   lastAvailable>>

\* the application imports the modules of src/crawler/crawlers itself
ImportCrawlerModules ==
    /\ ~crawlersImported
    /\ crawlersImported' = TRUE
    /\ CRAWLER_REGISTRY' = ImportCrawlers(CRAWLER_REGISTRY, Len(DiscoveryLog))
    /\ registrations' = registrations \o DiscoveryLog
    /\ UNCHANGED <<_DISCOVERY_DONE, lastResolve, discoveryRuns, lastAvailable>>

\* faulty _ensure_discovery: the flag is never set
_ensure_discovery_without_flag ==
    /\ CRAWLER_REGISTRY' = Discovered(CRAWLER_REGISTRY, _DISCOVERY_DONE, crawlersImported)
    /\ _DISCOVERY_DONE' = _DISCOVERY_DONE
    /\ crawlersImported' = TRUE
    /\ registrations' = IF _DISCOVERY_DONE \/ crawlersImported THEN registrations
                        ELSE registrations \o DiscoveryLog
    /\ discoveryRuns' = IF _DISCOVERY_DONE THEN discoveryRuns ELSE discoveryRuns + 1

\* _ensure_discovery
_ensure_discovery ==
    /\ CRAWLER_REGISTRY' = Discovered(CRAWLER_REGISTRY, _DISCOVERY_DONE, crawlersImported)
    /\ _DISCOVERY_DONE' = TRUE
    /\ crawlersImported' = TRUE
    /\ registrations' = IF _DISCOVERY_DONE \/ crawlersImported THEN registrations
                        ELSE registrations \o DiscoveryLog
    /\ discoveryRuns' = IF _DISCOVERY_DONE THEN discoveryRuns ELSE discoveryRuns + 1

\* resolve_crawler(kind, source_name=source_name)
resolve_crawler(kind, source_name) ==
    /\ _ensure_discovery
    /\ lastResolve' = [kind |-> kind, source_name |-> source_name,
                       result |-> Lookup(CRAWLER_REGISTRY', kind, source_name),
                       at |-> Len(registrations')]
    /\ UNCHANGED lastAvailable

\* the loop of available_crawlers: kind -> class for the keys without a source
Defaults(registry) ==
    [kind \in {key[1] : key \in {k \in DOMAIN registry : k[2] = None}} |->
        registry[<<kind, None>>]]

\* available_crawlers()
available_crawlers ==
    /\ _ensure_discovery
    /\ lastAvailable' = [called |-> TRUE, defaults |-> Defaults(CRAWLER_REGISTRY')]
    /\ UNCHANGED lastResolve

RegisterCrawler ==
    \E kind \in RegistryKinds, crawler_cls \in CustomCrawlers,
       source_name \in {None, " ", "Site"} :
        register_crawler(kind, crawler_cls, source_name)

ResolveCrawler ==
    \E kind \in RegistryKinds, source_name \in SourceNames :
        resolve_crawler(kind, source_name)

\* resolve_crawler(kind), no source name given
ResolveDefault == \E kind \in RegistryKinds : resolve_crawler(kind, None)

AvailableCrawlers == available_crawlers

----------------------------------------------------------------------------
(* Payload finalization and safe mode: src/crawler/base.py, crawlers/pdf_poems.py *)

\* length of the excerpt kept in safe mode: text_full[:250]
ExcerptLength == 250

\* a text of n characters
TextOf(n) == [i \in 1..n |-> i % 7]

\* text[:n]
Slice(text, n) == SubSeq(text, 1, IF Len(text) < n THEN Len(text) ELSE n)

CrawlerClasses == {DiscoveryLog[i].crawler_cls : i \in DOMAIN DiscoveryLog}

\* <Crawler>.kind
CrawlerKind(cls) ==
    DiscoveryLog[CHOOSE i \in DOMAIN DiscoveryLog : DiscoveryLog[i].crawler_cls = cls].kind

\* BaseCrawler._apply_safe_mode
_apply_safe_mode(self, payload) ==
    IF ~self.safe_mode THEN payload
    ELSE IF Truthy(payload, "text_full")
         THEN Put(Put(payload, "summary", Slice(payload["text_full"], ExcerptLength)),
                  "text_full", << >>)
         ELSE payload

\* BaseCrawler._finalize_payload
_finalize_payload(self, record, link, user) ==
    LET withKind == SetDefault(record, "kind", CrawlerKind(self.cls))
        withUrl  == SetDefault(withKind, "source_url",
                               IF Truthy(withKind, "source_url")
                               THEN withKind["source_url"] ELSE link)
        withName == IF user # "" THEN SetDefault(withUrl, "source_name", user)
                    ELSE withUrl
        payload  == SetDefault(withName, "safe_mode", self.safe_mode)
    IN  _apply_safe_mode(self, payload)

\* BaseCrawler.extract; fetched is FALSE when fetch raises
BaseExtract(self, link, user, page, fetched) ==
    IF ~fetched
    THEN [outcome |-> "raised", payloads |-> << >>, seen |-> self._seen_hashes]
    ELSE [outcome |-> "returned",
          payloads |-> [i \in 1..Len(page) |-> _finalize_payload(self, page[i], link, user)],
          seen |-> self._seen_hashes]

\* faulty loop of the PDF crawler: the poems are returned as parsed
RECURSIVE PdfLoop_unfinalized(_, _, _, _, _, _, _)
PdfLoop_unfinalized(self, poems, i, seen, extracted, pdf_url, user) ==
    IF i > Len(poems) THEN [payloads |-> extracted, seen |-> seen]
    ELSE LET doc_hash == Get(poems[i], "hash")
         IN  IF doc_hash # "" /\ doc_hash \in seen
             THEN PdfLoop_unfinalized(self, poems, i + 1, seen, extracted, pdf_url, user)
             ELSE PdfLoop_unfinalized(self, poems, i + 1,
                          IF doc_hash # "" THEN seen \cup {doc_hash} ELSE seen,
                          Append(extracted, poems[i]), pdf_url, user)

\* the loop `for poem in poems` of PdfPoemsCrawler.extract
RECURSIVE PdfLoop(_, _, _, _, _, _, _)
PdfLoop(self, poems, i, seen, extracted, pdf_url, user) ==
    IF i > Len(poems) THEN [payloads |-> extracted, seen |-> seen]
    ELSE LET doc_hash == Get(poems[i], "hash")
         IN  IF doc_hash # "" /\ doc_hash \in seen
             THEN PdfLoop(self, poems, i + 1, seen, extracted, pdf_url, user)
             ELSE PdfLoop(self, poems, i + 1,
                          IF doc_hash # "" THEN seen \cup {doc_hash} ELSE seen,
                          Append(extracted, _finalize_payload(self, poems[i], pdf_url, user)),
                          pdf_url, user)

\* PdfPoemsCrawler.extract; fetched is FALSE when fetch_bytes raises
PdfExtract(self, link, user, page, fetched) ==
    LET pdf_url == Strip(link)
    IN  IF pdf_url = "" \/ ~fetched
        THEN [outcome |-> "returned", payloads |-> << >>, seen |-> self._seen_hashes]
        ELSE LET done == PdfLoop(self, page, 1, self._seen_hashes, << >>, pdf_url, user)
             IN  [outcome |-> "returned", payloads |-> done.payloads, seen |-> done.seen]

\* the records a parser yields: without text_full, with an empty, a short and
\* a long one, with and without a summary of their own, two with a hash, one
\* with a kind, a source_url and a source_name of its own, and one whose
\* source_url is the empty string
ExtractRecords ==
    {MkRecord(NoStr, "T1", NoStr, NoStr, NoStr, text_full, summary, NoTime) :
        text_full \in {NoText, << >>, TextOf(2), TextOf(ExcerptLength + 1)},
        summary \in {NoText, <<9>>}}
    \cup {MkRecord(NoStr, "T1", "h1", NoStr, NoStr, text_full, NoText, NoTime) :
        text_full \in {TextOf(2), TextOf(ExcerptLength + 1)}}
    \cup {Put(MkRecord("book", "T1", NoStr, "U1", NoStr, TextOf(2), NoText, NoTime),
               "source_name", "own"),
           MkRecord(NoStr, "T1", NoStr, "", NoStr, TextOf(2), NoText, NoTime)}

ExtractInit ==
    /\ crawler \in [cls : CrawlerClasses, safe_mode : BOOLEAN, _seen_hashes : {{}}]
    /\ exLink \in {"", "L1"}
    /\ exUser \in {"", "site"}
    /\ exPage \in SeqsUpTo(ExtractRecords, MaxParsed)
    /\ exCalls = 0
    /\ exOutcome = "none"
    /\ exPayloads = << >>

ExtractIdle ==
    /\ crawler = [cls |-> "NewsCrawler", safe_mode |-> FALSE, _seen_hashes |-> {}]
    /\ exLink = ""
    /\ exUser = ""
    /\ exPage = << >>
    /\ exCalls = 0
    /\ exOutcome = "none"
    /\ exPayloads = << >>

\* crawler.extract(link, user)
extract(fetched) ==
    LET result == IF crawler.cls = "PdfPoemsCrawler"
                  THEN PdfExtract(crawler, exLink, exUser, exPage, fetched)
                  ELSE BaseExtract(crawler, exLink, exUser, exPage, fetched)
    IN  /\ exCalls < MaxExtracts
        /\ exCalls' = exCalls + 1
        /\ exOutcome' = result.outcome
        /\ exPayloads' = result.payloads
        /\ crawler' = [crawler EXCEPT !._seen_hashes = result.seen]
        /\ UNCHANGED <<exLink, exUser, exPage>>

Extract == \E fetched \in BOOLEAN : extract(fetched)

----------------------------------------------------------------------------
(* Safe-mode resolution: src/config/sources.py, src/zen/steps/crawl.py *)

\* Python True, False and None as configuration values
PyBool == {"True", "False"}

\* bool(value) of True, False or None
Bool(value) == value = "True"

\* values of the environment variable SAFE_MODE; None when it is not set
EnvValues == {None, "1", "true", "TRUE", "Yes", "on", "0", "false", "", "off"}

\* faulty precedence: the pipeline override is looked at before the environment
resolve_safe_mode_pipeline_first(source, default_safe_mode, env_override, pipeline_override) ==
    IF pipeline_override # None THEN Bool(pipeline_override)
    ELSE IF env_override THEN default_safe_mode
    ELSE IF "safe_mode" \in DOMAIN source THEN Bool(source["safe_mode"])
    ELSE default_safe_mode

\* resolve_safe_mode
resolve_safe_mode(source, default_safe_mode, env_override, pipeline_override) ==
    IF env_override THEN default_safe_mode
    ELSE IF pipeline_override # None THEN Bool(pipeline_override)
    ELSE IF "safe_mode" \in DOMAIN source THEN Bool(source["safe_mode"])
    ELSE default_safe_mode

\* safe_mode_value, with os.getenv("SAFE_MODE") as second argument
safe_mode_value(config_value, env_value) ==
    IF env_value # None
    THEN [default_safe_mode |-> Lower(env_value) \in {"1", "true", "yes", "on"},
          env_override |-> TRUE]
    ELSE [default_safe_mode |-> Bool(config_value), env_override |-> FALSE]

\* source definitions: safe_mode left out, null, true or false
SafeModeSources ==
    {("kind" :> "news") @@ Opt("safe_mode", v, v # NoStr) : v \in {NoStr, None} \cup PyBool}

SafeModeInit ==
    /\ smEnv \in EnvValues
    /\ smConfig \in {None} \cup PyBool
    /\ smPipeline \in {None} \cup PyBool
    /\ smSource \in SafeModeSources
    /\ smPc = "start"
    /\ smPayload = [default_safe_mode |-> FALSE, env_override |-> FALSE]
    /\ smResult = FALSE

SafeModeIdle ==
    /\ smEnv = None
    /\ smConfig = None
    /\ smPipeline = None
    /\ smSource = ("kind" :> "news")
    /\ smPc = "start"
    /\ smPayload = [default_safe_mode |-> FALSE, env_override |-> FALSE]
    /\ smResult = FALSE

\* get_or_create_source: the part that settles the safe-mode default
get_or_create_source ==
    /\ smPc = "start"
    /\ smPc' = "loaded"
    /\ smPayload' = safe_mode_value(smConfig, smEnv)
    /\ UNCHANGED <<smEnv, smConfig, smPipeline, smSource, smResult>>

\* crawl_links: the safe mode computed for the source
crawl_links ==
    /\ smPc = "loaded"
    /\ smPc' = "resolved"
    /\ smResult' = resolve_safe_mode(smSource, smPayload.default_safe_mode,
                                     smPayload.env_override, smPipeline)
    /\ UNCHANGED <<smEnv, smConfig, smPipeline, smSource, smPayload>>

----------------------------------------------------------------------------
(* BaseCrawler.fetch: src/crawler/base.py *)

RECURSIVE Pow(_, _)
\* b ** e
Pow(b, e) == IF e = 0 THEN 1 ELSE b * Pow(b, e - 1)

\* wait = self.backoff_base * (self.backoff_factor ** (attempt - 1))
Wait(self, n) == self.backoff_base * Pow(self.backoff_factor, n - 1)

\* faulty test: one more round before giving up
GivesUp_one_late(self, n) == n > self.max_retries

\* if attempt >= self.max_retries: raise
GivesUp(self, n) == n >= self.max_retries

FetchInit ==
    /\ fetchConfig \in [max_retries : 0..MaxRetries, backoff_base : 1..3,
                         backoff_factor : 1..2]
    /\ fetchPc = "idle"
    /\ attempt = 0
    /\ httpCalls = 0
    /\ sleeps = << >>
    /\ fetchOutcome = 0

FetchIdle ==
    /\ fetchConfig = [max_retries |-> MaxRetries, backoff_base |-> 1, backoff_factor |-> 2]
    /\ fetchPc = "idle"
    /\ attempt = 0
    /\ httpCalls = 0
    /\ sleeps = << >>
    /\ fetchOutcome = 0

\* fetch(url) is entered: attempt = 0
fetch ==
    /\ fetchPc = "idle"
    /\ fetchPc' = "loop"
    /\ attempt' = 0
    /\ UNCHANGED <<fetchConfig, httpCalls, sleeps, fetchOutcome>>

\* http_get returns: the response is returned
HttpGetReturns ==
    /\ fetchPc = "loop" /\ attempt < fetchConfig.max_retries
    /\ httpCalls' = httpCalls + 1
    /\ fetchOutcome' = httpCalls'
    /\ fetchPc' = "returned"
    /\ UNCHANGED <<fetchConfig, attempt, sleeps>>

\* http_get raises: the except branch
HttpGetRaises ==
    /\ fetchPc = "loop" /\ attempt < fetchConfig.max_retries
    /\ httpCalls' = httpCalls + 1
    /\ attempt' = attempt + 1
    /\ IF GivesUp(fetchConfig, attempt')
       THEN /\ fetchPc' = "raised"
            /\ fetchOutcome' = httpCalls'
            /\ UNCHANGED sleeps
       ELSE /\ sleeps' = Append(sleeps, Wait(fetchConfig, attempt'))
            /\ UNCHANGED <<fetchPc, fetchOutcome>>
    /\ UNCHANGED fetchConfig

\* the while loop ends: raise RuntimeError("Fetch retries exhausted")
RetriesExhausted ==
    /\ fetchPc = "loop" /\ ~(attempt < fetchConfig.max_retries)
    /\ fetchPc' = "raised"
    /\ fetchOutcome' = -1
    /\ UNCHANGED <<fetchConfig, attempt, httpCalls, sleeps>>

----------------------------------------------------------------------------
(* A crawl run: src/zen/steps/crawl.py, src/config/sources.py *)

\* source definitions: two crawlable ones, one without kind, one of a kind
\* with no registered crawler, one disabled
SourceDefinitions ==
    { [name |-> "a", kind |-> "news", seeds |-> <<"L1", "L2">>],
      [name |-> "d", kind |-> "poem", url |-> "L3"],
      [name |-> "b", seeds |-> <<"L4">>],
      [name |-> "c", kind |-> "essay", seeds |-> <<"L5">>],
      [name |-> "e", kind |-> "book", enabled |-> FALSE, seeds |-> <<"L6">>] }

\* the names a run may ask for; "missing" is configured nowhere
RequestedNames == {"a", "b", "c", "d", "missing"}

\* the registry after discovery, with no registration of the application
DefaultRegistry == ImportCrawlers(EmptyDict, Len(DiscoveryLog))

NamesOf(sources) == {Get(sources[i], "name") : i \in DOMAIN sources}

\* select_sources; source_names is given as the set of its stripped, non-empty
\* names, the empty set standing for None and for an empty list alike
select_sources(sources, source_names) ==
    IF source_names = {}
    THEN [ok |-> TRUE, sources |-> sources]
    ELSE LET selected == SelectSeq(sources, LAMBDA source : Get(source, "name") \in source_names)
         IN  IF source_names \ NamesOf(selected) # {}
             THEN [ok |-> FALSE, sources |-> << >>]
             ELSE [ok |-> TRUE, sources |-> selected]

\* name = source.get("name") or source.get("kind") or "<unknown>"
SourceName(source) ==
    IF Truthy(source, "name") THEN source["name"]
    ELSE IF Truthy(source, "kind") THEN source["kind"]
    ELSE "<unknown>"

\* source.get("enabled", True)
Enabled(source) == IF "enabled" \in DOMAIN source THEN source["enabled"] ELSE TRUE

\* source.get("seeds", [])
Seeds(source) == IF "seeds" \in DOMAIN source THEN source["seeds"] ELSE << >>

\* BaseCrawler.links
links(config) ==
    LET seeds == SelectSeq(Seeds(config), LAMBDA seed : seed # "")
    IN  IF seeds # << >> THEN seeds
        ELSE IF Truthy(config, "list_url") THEN <<config["list_url"]>>
        ELSE IF Truthy(config, "url") THEN <<config["url"]>>
        ELSE IF Truthy(config, "base") THEN <<config["base"]>>
        ELSE << >>

\* the links crawl_links walks for a source
LinksFor(source) ==
    IF links(source) # << >> THEN links(source)
    ELSE IF Seeds(source) # << >> THEN Seeds(source)
    ELSE IF Truthy(source, "list_url") THEN <<source["list_url"]>>
    ELSE IF Truthy(source, "url") THEN <<source["url"]>>
    ELSE << >>

\* faulty handler: a failing link ends the walk over the links of its source
AfterFailedLink_break(link, n) == n + 1

\* the except branch of the link loop: continue with the next link
AfterFailedLink(link, n) == link + 1

RunInit ==
    /\ runConfig \in {c \in SeqsUpTo(SourceDefinitions, MaxSources) :
                         \A i, j \in DOMAIN c : c[i] = c[j] => i = j}
    /\ runRequested \in SUBSET RequestedNames
    /\ runPc = "start"
    /\ runSources = << >>
    /\ runSource = 0
    /\ runLinks = << >>
    /\ runLink = 0
    /\ runDocuments = << >>
    /\ runSummary = << >>
    /\ runErrors = << >>
    /\ extractLog = << >>

RunIdle ==
    /\ runConfig = << >>
    /\ runRequested = {}
    /\ runPc = "start"
    /\ runSources = << >>
    /\ runSource = 0
    /\ runLinks = << >>
    /\ runLink = 0
    /\ runDocuments = << >>
    /\ runSummary = << >>
    /\ runErrors = << >>
    /\ extractLog = << >>

\* get_or_create_source: the sources of the run, or KeyError
LoadSources ==
    /\ runPc = "start"
    /\ LET selected == select_sources(runConfig, runRequested)
       IN  IF selected.ok
           THEN /\ runPc' = "source"
                /\ runSources' = selected.sources
                /\ runSource' = 1
           ELSE /\ runPc' = "KeyError"
                /\ UNCHANGED <<runSources, runSource>>
    /\ UNCHANGED <<runConfig, runRequested, runLinks, runLink, runDocuments, runSummary,
                   runErrors, extractLog>>

\* crawl_links, head of the loop over the sources: a disabled source, a
\* source without kind and a source whose crawler cannot be created are
\* reported in the summary; for any other source the crawler is created
StartSource ==
    /\ runPc = "source" /\ runSource <= Len(runSources)
    /\ LET source == runSources[runSource]
           name   == SourceName(source)
           kind   == Get(source, "kind")
       IN  IF ~Enabled(source)
           THEN /\ runSummary' = Append(runSummary, [name |-> name, kind |-> kind, enabled |-> FALSE,
                                               documents |-> 0])
                /\ runSource' = runSource + 1
                /\ UNCHANGED <<runPc, runLinks, runLink, runErrors>>
           ELSE IF kind = ""
           THEN /\ runSummary' = Append(runSummary, [name |-> name, error |-> "Missing kind",
                                               documents |-> 0])
                /\ runSource' = runSource + 1
                /\ UNCHANGED <<runPc, runLinks, runLink, runErrors>>
           ELSE IF Lookup(DefaultRegistry, kind, name) = "KeyError"
           THEN /\ runSummary' = Append(runSummary, [name |-> name, kind |-> kind,
                                               error |-> "KeyError", documents |-> 0])
                /\ runSource' = runSource + 1
                /\ UNCHANGED <<runPc, runLinks, runLink, runErrors>>
           ELSE /\ runPc' = "links"
                /\ runLinks' = LinksFor(source)
                /\ runLink' = 1
                /\ runErrors' = << >>
                /\ UNCHANGED <<runSummary, runSource>>
    /\ UNCHANGED <<runConfig, runRequested, runSources, runDocuments, extractLog>>

\* crawler.extract(link, user=name) returns one payload
ExtractReturns ==
    /\ runPc = "links" /\ runLink <= Len(runLinks)
    /\ LET name == SourceName(runSources[runSource])
           link == runLinks[runLink]
       IN  /\ runDocuments' = Append(runDocuments, [source_name |-> name, source_url |-> link])
           /\ extractLog' = Append(extractLog, [name |-> name, link |-> link, ok |-> TRUE])
    /\ runLink' = runLink + 1
    /\ UNCHANGED <<runConfig, runRequested, runPc, runSources, runSource, runLinks,
                   runSummary, runErrors>>

\* crawler.extract(link, user=name) raises
ExtractRaises ==
    /\ runPc = "links" /\ runLink <= Len(runLinks)
    /\ LET name == SourceName(runSources[runSource])
           link == runLinks[runLink]
       IN  /\ runErrors' = Append(runErrors, link)
           /\ extractLog' = Append(extractLog, [name |-> name, link |-> link, ok |-> FALSE])
    /\ runLink' = AfterFailedLink(runLink, Len(runLinks))
    /\ UNCHANGED <<runConfig, runRequested, runPc, runSources, runSource, runLinks,
                   runDocuments, runSummary>>

\* the links of the source are done: crawler.close() and the summary entry
FinishSource ==
    /\ runPc = "links" /\ runLink > Len(runLinks)
    /\ LET source == runSources[runSource]
           name   == SourceName(source)
       IN  runSummary' = Append(runSummary,
               [name |-> name, kind |-> source["kind"], links_processed |-> Len(runLinks),
                documents |-> Len(SelectSeq(extractLog, LAMBDA x : x.name = name /\ x.ok)),
                errors |-> runErrors])
    /\ runPc' = "source"
    /\ runSource' = runSource + 1
    /\ UNCHANGED <<runConfig, runRequested, runSources, runLinks, runLink, runDocuments,
                   runErrors, extractLog>>

\* crawl_links returns documents and metadata
ReturnDocuments ==
    /\ runPc = "source" /\ runSource > Len(runSources)
    /\ runPc' = "done"
    /\ UNCHANGED <<runConfig, runRequested, runSources, runSource, runLinks, runLink,
                   runDocuments, runSummary, runErrors, extractLog>>

----------------------------------------------------------------------------
(* PDF segmentation: src/crawler/crawlers/pdf_poems.py *)

\* The lines of a stream, as _collect_lines leaves them (stripped, inner
\* blanks collapsed), one for every way the line tests tell lines apart:
\*   ""            a blank line
\*   "ANNEM"       upper case: shaped like a title and like a title continuation
\*   "AH"          upper case but shorter than 3: a continuation, not a title
\*   "Ben Sana Mecburum Bilemezsin Adini"
\*                 five capitalized words: shaped like a title, not a continuation
\*   "bir gun"     lower case: neither
\*   "siir arsivi" lower case: neither; the site token that clean() trims
\*   "SIIR ARSIVI" upper case: title and continuation; the site token as well
PdfLineKinds ==
    {"", "ANNEM", "AH", "Ben Sana Mecburum Bilemezsin Adini", "bir gun",
     "siir arsivi", "SIIR ARSIVI"}

\* the tests of _is_title_candidate on the line alone (length 3..60, letters,
\* punctuation count, case)
TitleShaped(line) ==
    line \in {"ANNEM", "Ben Sana Mecburum Bilemezsin Adini", "SIIR ARSIVI"}

\* _is_title_continuation
_is_title_continuation(line) == line \in {"ANNEM", "AH", "SIIR ARSIVI"}

\* _next_non_empty_line: the position of the line, 0 for None
_next_non_empty_line(lines, idx) ==
    LET later == {pos \in (idx + 1)..Len(lines) : lines[pos] # ""}
    IN  IF later = {} THEN 0 ELSE CHOOSE pos \in later : \A q \in later : pos <= q

\* _is_title_candidate
_is_title_candidate(line, lines, idx) ==
    TitleShaped(line) /\ _next_non_empty_line(lines, idx) # 0

\* _detect_title_indices: the positions, in increasing order
_detect_title_indices(lines) ==
    LET found == {idx \in 1..Len(lines) :
                     /\ lines[idx] # ""
                     /\ ~(idx > 1 /\ lines[idx - 1] # "")
                     /\ _is_title_candidate(lines[idx], lines, idx)}
    IN  [k \in 1..Cardinality(found) |->
            CHOOSE idx \in found : Cardinality({j \in found : j <= idx}) = k]

\* the while loop of _collect_title_block
RECURSIVE TitleBlockLoop(_, _, _, _)
TitleBlockLoop(lines, idx, current, parts) ==
    IF current > Len(lines) \/ lines[current] = ""
    THEN [title_text |-> parts, current |-> current]
    ELSE IF current # idx /\ ~_is_title_continuation(lines[current])
    THEN [title_text |-> parts, current |-> current]
    ELSE TitleBlockLoop(lines, idx, current + 1, Append(parts, lines[current]))

\* _collect_title_block; the title " ".join(parts) is kept as the list parts
_collect_title_block(lines, idx) == TitleBlockLoop(lines, idx, idx, << >>)

\* str.strip() on a text given as its list of lines: blank lines at both ends go
RECURSIVE StripLines(_)
StripLines(text) ==
    IF text = << >> THEN text
    ELSE IF text[1] = "" THEN StripLines(Tail(text))
    ELSE IF text[Len(text)] = "" THEN StripLines(SubSeq(text, 1, Len(text) - 1))
    ELSE text

\* normalize_token on a line: lower case, no diacritics
normalize_token(line) ==
    CASE line = "ANNEM" -> "annem"
      [] line = "AH" -> "ah"
      [] line = "Ben Sana Mecburum Bilemezsin Adini" -> "ben sana mecburum bilemezsin adini"
      [] line = "SIIR ARSIVI" -> "siir arsivi"
      [] OTHER -> line

SIIR_ARSIVI_TOKENS == {"siir arsivi"}

\* clean() on a text given as its list of lines
clean(text) ==
    LET cleaned == StripLines(text)
    IN  IF Len(cleaned) = 1 /\ normalize_token(cleaned[1]) \in SIIR_ARSIVI_TOKENS
        THEN << >> ELSE cleaned

\* re.sub(r"\n{3,}", "\n\n", text): a run of blank lines becomes one blank line
RECURSIVE CollapseBlankRuns(_)
CollapseBlankRuns(text) ==
    IF Len(text) < 2 THEN text
    ELSE IF text[1] = "" /\ text[2] = "" THEN CollapseBlankRuns(Tail(text))
    ELSE <<text[1]>> \o CollapseBlankRuns(Tail(text))

\* _normalize_poem_text on a text given as its list of lines
_normalize_poem_text(text) ==
    LET cleaned == clean(text)
    IN  IF cleaned = << >> THEN << >> ELSE StripLines(CollapseBlankRuns(cleaned))

\* "|".join(part or "" for part in parts), every part a list
RECURSIVE JoinParts(_)
JoinParts(parts) ==
    IF parts = << >> THEN << >>
    ELSE IF Len(parts) = 1 THEN parts[1]
    ELSE parts[1] \o <<"|">> \o JoinParts(Tail(parts))

\* mkhash(*parts), the SHA-256 of the joined parts: equal exactly when the
\* joined parts are equal
mkhash(parts) == JoinParts(parts)

\* _build_document: the fields that depend on the segmentation
_build_document(title, text, source_url) ==
    LET safe_title == IF clean(title) = << >> /\ text # << >> THEN <<text[1]>>
                      ELSE clean(title)
    IN  [title |-> safe_title, text_full |-> text, source_url |-> source_url,
         hash |-> mkhash(<<<<source_url>>, safe_title, text>>)]

\* faulty loop: the body of a work runs to the end of the document
RECURSIVE SplitLoop_to_end(_, _, _, _, _)
SplitLoop_to_end(lines, title_indices, idx, documents, source_url) ==
    IF idx > Len(title_indices) THEN documents
    ELSE LET block == _collect_title_block(lines, title_indices[idx])
             text  == _normalize_poem_text(SubSeq(lines, block.current, Len(lines)))
         IN  SplitLoop_to_end(lines, title_indices, idx + 1,
                 IF text = << >> THEN documents
                 ELSE Append(documents, _build_document(block.title_text, text, source_url)),
                 source_url)

\* the loop over the title indices of _split_poems
RECURSIVE SplitLoop(_, _, _, _, _)
SplitLoop(lines, title_indices, idx, documents, source_url) ==
    IF idx > Len(title_indices) THEN documents
    ELSE LET block == _collect_title_block(lines, title_indices[idx])
             next_title_idx == IF idx + 1 <= Len(title_indices)
                               THEN title_indices[idx + 1] ELSE Len(lines) + 1
             body_lines == StripLines(SubSeq(lines, block.current, next_title_idx - 1))
             text  == _normalize_poem_text(body_lines)
         IN  SplitLoop(lines, title_indices, idx + 1,
                 IF text = << >> THEN documents
                 ELSE Append(documents, _build_document(block.title_text, text, source_url)),
                 source_url)

\* _split_poems
_split_poems(lines, source_url) ==
    LET title_indices == _detect_title_indices(lines)
    IN  IF title_indices = << >>
        THEN LET text == _normalize_poem_text(lines)
             IN  IF text = << >> THEN << >>
                 ELSE <<_build_document(<<text[1]>>, text, source_url)>>
        ELSE SplitLoop(lines, title_indices, 1, << >>, source_url)

PdfInit ==
    /\ pdfLines \in SeqsUpTo(PdfLineKinds, MaxLines)
    /\ pdfPc = "pending"
    /\ pdfPoems = << >>

PdfIdle ==
    /\ pdfLines = << >>
    /\ pdfPc = "pending"
    /\ pdfPoems = << >>

SplitPoems ==
    /\ pdfPc = "pending"
    /\ pdfPc' = "done"
    /\ pdfPoems' = _split_poems(pdfLines, "L1")
    /\ UNCHANGED pdfLines

----------------------------------------------------------------------------
(* CID repair: PdfPoemsCrawler._replace_cid_sequences *)

\* A text is a list of pieces: the five characters "(cid:" taken together,
\* a digit, ")" or another character.
Digits == {"2", "9"}

TextPieces == {"(cid:", ")", "a"} \cup Digits

\* CID_REPLACEMENTS, every code a list of digits and every value a list of
\* characters, a character outside ASCII written as its code point
CID_REPLACEMENTS ==
    <<"2", "1", "3">> :> <<"U+0131">> @@ <<"2", "4", "7">> :> <<"U+011F">> @@
    <<"2", "5", "0">> :> <<"U+015F">> @@ <<"2", "4", "8">> :> <<"U+0130">> @@
    <<"2", "4", "9">> :> <<"U+015E">> @@ <<"8", "0">> :> <<"n">> @@
    <<"8", "1">> :> <<"n">> @@ <<"8", "5">> :> <<"z">> @@
    <<"8", "6">> :> <<"n">> @@ <<"9", "2">> :> <<"y">> @@
    <<"9", "3">> :> <<"l">> @@ <<"7", "9">> :> <<"U+011F">> @@
    <<"4", "6">> :> <<"U+00D6">> @@ <<"3", "6">> :> <<"U+00C7">> @@
    <<"4", "4">> :> <<"U+0131", "U+015F">> @@ <<"5", "6">> :> <<"U+015E", "a", "f">> @@
    <<"6", "0">> :> <<"Y">> @@ <<"6", "8">> :> <<"g", "U+00FC">> @@
    <<"7", "1">> :> <<"d", "U+0131", "r">> @@ <<"7", "2">> :> <<"i">> @@
    <<"7", "6">> :> <<"U+0130", "U+015F">> @@ <<"7", "8">> :> <<"k", "U+0131">> @@
    <<"3">> :> <<" ", "U+015F">> @@ <<"2", "4", "6">> :> <<"U+011E">>

\* the end of the match of CID_PATTERN that starts at pos, 0 when there is none
CidMatchEnd(text, pos) ==
    IF text[pos] # "(cid:" THEN 0
    ELSE LET closers == {j \in (pos + 2)..Len(text) :
                            /\ text[j] = ")"
                            /\ \A m \in (pos + 1)..(j - 1) : text[m] \in Digits}
         IN  IF closers = {} THEN 0 ELSE CHOOSE j \in closers : TRUE

\* repl: CID_REPLACEMENTS.get(code, "")
repl(code) == IF code \in DOMAIN CID_REPLACEMENTS THEN CID_REPLACEMENTS[code] ELSE << >>

\* faulty repl: a placeholder with an unmapped code is left in the text
RECURSIVE CidSub_keeps_unmapped(_, _)
CidSub_keeps_unmapped(text, pos) ==
    IF pos > Len(text) THEN << >>
    ELSE LET end == CidMatchEnd(text, pos)
             code == SubSeq(text, pos + 1, end - 1)
         IN  IF end = 0 THEN <<text[pos]>> \o CidSub_keeps_unmapped(text, pos + 1)
             ELSE (IF code \in DOMAIN CID_REPLACEMENTS THEN CID_REPLACEMENTS[code]
                   ELSE SubSeq(text, pos, end))
                  \o CidSub_keeps_unmapped(text, end + 1)

\* CID_PATTERN.sub(repl, text): one pass from left to right over the matches
\* of the input, the replacements not scanned again
RECURSIVE CidSub(_, _)
CidSub(text, pos) ==
    IF pos > Len(text) THEN << >>
    ELSE LET end == CidMatchEnd(text, pos)
         IN  IF end = 0 THEN <<text[pos]>> \o CidSub(text, pos + 1)
             ELSE repl(SubSeq(text, pos + 1, end - 1)) \o CidSub(text, end + 1)

\* _replace_cid_sequences
_replace_cid_sequences(text) ==
    IF \A pos \in 1..Len(text) : text[pos] # "(cid:" THEN text
    ELSE CidSub(text, 1)

CidInit ==
    /\ cidText \in SeqsUpTo(TextPieces, MaxText)
    /\ cidPc = "pending"
    /\ cidOutput = << >>

CidIdle ==
    /\ cidText = << >>
    /\ cidPc = "pending"
    /\ cidOutput = << >>

ReplaceCidSequences ==
    /\ cidPc = "pending"
    /\ cidPc' = "done"
    /\ cidOutput' = _replace_cid_sequences(cidText)
    /\ UNCHANGED cidText

----------------------------------------------------------------------------
(* PdfPoemsCrawler instances: src/crawler/crawlers/pdf_poems.py *)

PdfInstanceIds == {1, 2}

\* the works _parse_pdf returns: _build_document gives every one a hash
PdfPoemRecords ==
    {MkRecord(NoStr, title, hash, NoStr, NoStr, TextOf(2), NoText, NoTime) :
        title \in {"T1"}, hash \in {"h1", "h2"}}

\* PdfPoemsCrawler.__init__
PdfPoemsCrawler(safe_mode) ==
    [cls |-> "PdfPoemsCrawler", safe_mode |-> safe_mode, _seen_hashes |-> {}]

\* faulty attribute: one set of seen hashes for all instances
SeenAfter_shared(instances, self, seen) ==
    [i \in DOMAIN instances |-> [instances[i] EXCEPT !._seen_hashes = seen]]

\* self._seen_hashes after the call: the attribute of that instance only
SeenAfter(instances, self, seen) ==
    [instances EXCEPT ![self]._seen_hashes = seen]

PdfRunInit ==
    /\ pdfInstances \in [PdfInstanceIds -> {PdfPoemsCrawler(safe_mode) : safe_mode \in BOOLEAN}]
    /\ pdfReturned = [i \in PdfInstanceIds |-> << >>]
    /\ pdfCalls = 0
    /\ pdfLast = [instance |-> 0, link |-> "", poems |-> << >>, fetched |-> FALSE]

PdfRunIdle ==
    /\ pdfInstances = [i \in PdfInstanceIds |-> PdfPoemsCrawler(FALSE)]
    /\ pdfReturned = [i \in PdfInstanceIds |-> << >>]
    /\ pdfCalls = 0
    /\ pdfLast = [instance |-> 0, link |-> "", poems |-> << >>, fetched |-> FALSE]

\* one call of extract on the instance self; fetched is FALSE when
\* fetch_bytes raises, poems is what _parse_pdf returns
PdfExtractCall ==
    \E self \in PdfInstanceIds, link \in {"", "L1"}, fetched \in BOOLEAN,
       poems \in SeqsUpTo(PdfPoemRecords, MaxParsed) :
        LET result == PdfExtract(pdfInstances[self], link, "site", poems, fetched)
        IN  /\ pdfCalls < MaxExtracts
            /\ pdfCalls' = pdfCalls + 1
            /\ pdfInstances' = SeenAfter(pdfInstances, self, result.seen)
            /\ pdfReturned' = [pdfReturned EXCEPT ![self] = @ \o result.payloads]
            /\ pdfLast' = [instance |-> self, link |-> link, poems |-> poems,
                           fetched |-> fetched]

----------------------------------------------------------------------------
(* Content hash: src/crawler/utils/text.py, src/crawler/crawlers/poem_pages.py *)

\* A text is a list of characters; a character outside printable ASCII is
\* written by its name or code point: "LF", "CR", "TAB", "U+00A0" (no-break
\* space), "U+200B" (zero width space), "U+2018"/"U+2019" (single quotes),
\* "U+201C"/"U+201D" (double quotes), "U+2013"/"U+2014" (dashes).
Whitespace == {" ", "TAB"}

LineBreaks == {"LF", "CR"}

\* unicodedata.normalize("NFKC", text) on these characters
NFKC(text) == [k \in 1..Len(text) |-> IF text[k] = "U+00A0" THEN " " ELSE text[k]]

\* the chain of str.replace calls of canonicalize on one character
ReplaceChar(c) ==
    CASE c = "U+00A0" -> <<" ">>
      [] c = "U+200B" -> << >>
      [] c \in {"U+2019", "U+2018"} -> <<"'">>
      [] c \in {"U+201C", "U+201D"} -> <<"\"">>
      [] c \in {"U+2013", "U+2014"} -> <<"-">>
      [] OTHER -> <<c>>

RECURSIVE ReplaceAll(_)
ReplaceAll(text) ==
    IF text = << >> THEN << >> ELSE ReplaceChar(text[1]) \o ReplaceAll(Tail(text))

\* str.splitlines()
RECURSIVE SplitLinesFrom(_, _, _)
SplitLinesFrom(text, pos, line) ==
    IF pos > Len(text) THEN (IF line = << >> THEN << >> ELSE <<line>>)
    ELSE IF text[pos] = "CR" /\ pos < Len(text) /\ text[pos + 1] = "LF"
    THEN <<line>> \o SplitLinesFrom(text, pos + 2, << >>)
    ELSE IF text[pos] \in LineBreaks
    THEN <<line>> \o SplitLinesFrom(text, pos + 1, << >>)
    ELSE SplitLinesFrom(text, pos + 1, Append(line, text[pos]))

splitlines(text) == SplitLinesFrom(text, 1, << >>)

\* re.sub(pattern, " ", line) for a pattern that matches the runs of the
\* characters in set
RECURSIVE CollapseRuns(_, _)
CollapseRuns(line, set) ==
    IF line = << >> THEN << >>
    ELSE IF line[1] \in set
    THEN IF Len(line) > 1 /\ line[2] \in set THEN CollapseRuns(Tail(line), set)
         ELSE <<" ">> \o CollapseRuns(Tail(line), set)
    ELSE <<line[1]>> \o CollapseRuns(Tail(line), set)

\* str.strip()
RECURSIVE StripText(_)
StripText(text) ==
    IF text = << >> THEN text
    ELSE IF text[1] \in Whitespace \cup LineBreaks THEN StripText(Tail(text))
    ELSE IF text[Len(text)] \in Whitespace \cup LineBreaks
    THEN StripText(SubSeq(text, 1, Len(text) - 1))
    ELSE text

\* " \n ".join(line for line in lines if line)
RECURSIVE JoinLines(_)
JoinLines(lines) ==
    IF lines = << >> THEN << >>
    ELSE IF lines[1] = << >> THEN JoinLines(Tail(lines))
    ELSE LET rest == JoinLines(Tail(lines))
         IN  IF rest = << >> THEN lines[1] ELSE lines[1] \o <<" ", "LF", " ">> \o rest

\* str.lower() on one character
LowerChar(c) == IF c = "A" THEN "a" ELSE IF c = "N" THEN "n" ELSE c

\* faulty canonicalize: the letter case is kept
canonicalize_keeps_case(text) ==
    IF text = << >> THEN << >>
    ELSE LET normalized == ReplaceAll(NFKC(text))
             split == splitlines(normalized)
             lines == [k \in 1..Len(split) |->
                          StripText(CollapseRuns(split[k], Whitespace \cup LineBreaks))]
             canonical == CollapseRuns(JoinLines(lines), Whitespace)
         IN  StripText(canonical)

\* canonicalize
canonicalize(text) ==
    IF text = << >> THEN << >>
    ELSE LET normalized == ReplaceAll(NFKC(text))
             split == splitlines(normalized)
             lines == [k \in 1..Len(split) |->
                          StripText(CollapseRuns(split[k], Whitespace \cup LineBreaks))]
             canonical == CollapseRuns(JoinLines(lines), Whitespace)
             stripped == StripText(canonical)
         IN  [k \in 1..Len(stripped) |-> LowerChar(stripped[k])]

\* doc_hash of PoemPageCrawler._parse_detail
doc_hash(author, title, text_full) ==
    mkhash(<<canonicalize(author), canonicalize(title), canonicalize(text_full)>>)

\* the characters a text has at the start
PlainChars == {"a", "A", "'", "-", " ", "LF"}

\* the other renderings of one character of a text: the other letter case, a
\* smart for a plain quote or dash and back, a no-break for a plain space and
\* back, CR LF for LF and back, a whitespace character doubled or a doubled
\* one halved
Renderings(text, k) ==
    LET c == text[k]
        before == SubSeq(text, 1, k - 1)
        after  == SubSeq(text, k + 1, Len(text))
        swaps == CASE c = "a" -> {<<"A">>}
                   [] c = "A" -> {<<"a">>}
                   [] c = "'" -> {<<"U+2019">>, <<"U+2018">>}
                   [] c \in {"U+2019", "U+2018"} -> {<<"'">>}
                   [] c = "-" -> {<<"U+2013">>, <<"U+2014">>}
                   [] c \in {"U+2013", "U+2014"} -> {<<"-">>}
                   [] c = " " -> {<<"U+00A0">>, <<" ", " ">>, <<" ", "TAB">>}
                         \cup (IF k > 1 /\ text[k - 1] \in Whitespace THEN {<< >>} ELSE {})
                   [] c = "U+00A0" -> {<<" ">>}
                   [] c = "TAB" -> {<<" ">>}
                   [] c = "LF" -> IF k > 1 /\ text[k - 1] = "CR" THEN {}
                                  ELSE {<<"CR", "LF">>}
                   [] c = "CR" -> IF k < Len(text) /\ text[k + 1] = "LF" THEN {<< >>}
                                  ELSE {}
                   [] OTHER -> {}
    IN  {before \o swap \o after : swap \in swaps}

Authors == {<<"N", "a">>}

Titles == {<<"A", "'">>}

HashInit ==
    /\ hashTriple \in [author : Authors, title : Titles,
                        text_full : SeqsUpTo(PlainChars, MaxChars)]
    /\ noiseSteps = 0
    /\ hashLog = << >>

HashIdle ==
    /\ hashTriple = [author |-> <<"N", "a">>, title |-> <<"A">>, text_full |-> << >>]
    /\ noiseSteps = 0
    /\ hashLog = << >>

\* the same content arrives in another rendering
Rerender ==
    /\ noiseSteps < MaxNoise
    /\ \E field \in {"author", "title", "text_full"} :
          \E k \in 1..Len(hashTriple[field]) :
             \E text \in Renderings(hashTriple[field], k) :
                hashTriple' = [hashTriple EXCEPT ![field] = text]
    /\ noiseSteps' = noiseSteps + 1
    /\ UNCHANGED hashLog

\* _parse_detail computes doc_hash for the triple
ComputeHash ==
    /\ Len(hashLog) < MaxHashes
    /\ hashLog' = Append(hashLog,
           [triple |-> hashTriple,
            hash |-> doc_hash(hashTriple.author, hashTriple.title, hashTriple.text_full)])
    /\ UNCHANGED <<hashTriple, noiseSteps>>

----------------------------------------------------------------------------
(* Static list crawler: src/crawler/crawlers/wiki_lists.py, utils/text.py *)

\* Python None as a year
NoYear == -1

DecimalDigits == {"0", "1", "2", "3", "4", "5", "6", "7", "8", "9"}

DigitValue(c) ==
    CASE c = "0" -> 0 [] c = "1" -> 1 [] c = "2" -> 2 [] c = "3" -> 3 [] c = "4" -> 4
      [] c = "5" -> 5 [] c = "6" -> 6 [] c = "7" -> 7 [] c = "8" -> 8 [] c = "9" -> 9

\* int(digits)
RECURSIVE int(_)
int(digits) ==
    IF digits = << >> THEN 0
    ELSE 10 * int(SubSeq(digits, 1, Len(digits) - 1)) + DigitValue(digits[Len(digits)])

\* pattern.search: the first of the positions at which the pattern matches,
\* 0 for no match
FirstMatch(starts) ==
    IF starts = {} THEN 0 ELSE CHOOSE pos \in starts : \A q \in starts : pos <= q

\* YEAR_RE = (18|19|20)\d{2} at position pos
YEAR_RE(text, pos) ==
    /\ pos + 3 <= Len(text)
    /\ <<text[pos], text[pos + 1]>> \in {<<"1", "8">>, <<"1", "9">>, <<"2", "0">>}
    /\ text[pos + 2] \in DecimalDigits
    /\ text[pos + 3] \in DecimalDigits

\* year_from_text
year_from_text(text) ==
    IF text = << >> THEN NoYear
    ELSE LET start == FirstMatch({pos \in 1..Len(text) : YEAR_RE(text, pos)})
         IN  IF start = 0 THEN NoYear ELSE int(SubSeq(text, start, start + 3))

\* the regular expressions a source configures for the year: none, or four
\* digits in a row
YearRegexes == {None, "\\d{4}"}

\* \d{4} at position pos
FourDigits(text, pos) ==
    /\ pos + 3 <= Len(text)
    /\ \A k \in pos..(pos + 3) : text[k] \in DecimalDigits

\* clean() on the text of a list item, which has no line break
CleanItem(text) ==
    LET cleaned == StripText(CollapseRuns(text, Whitespace))
    IN  IF cleaned = <<"s", "i", "i", "r", " ", "a", "r", "s", "i", "v", "i">>
        THEN << >> ELSE cleaned

\* the year of one list item in WikiListCrawler.parse
ItemYear(year_regex, title) ==
    LET start == IF year_regex = None THEN 0
                 ELSE FirstMatch({pos \in 1..Len(title) : FourDigits(title, pos)})
        year  == IF start = 0 THEN NoYear ELSE int(SubSeq(title, start, start + 3))
    IN  IF year = NoYear THEN year_from_text(title) ELSE year

\* the loop `for li in items` of WikiListCrawler.parse
RECURSIVE ParseItems(_, _)
ParseItems(items, year_regex) ==
    IF items = << >> THEN << >>
    ELSE LET title == CleanItem(items[Len(items)])
             before == ParseItems(SubSeq(items, 1, Len(items) - 1), year_regex)
         IN  IF title = << >> THEN before
             ELSE Append(before, [title |-> title, year |-> ItemYear(year_regex, title)])

\* WikiListCrawler.parse
parse(extract_config, items) ==
    IF extract_config.section_css = None THEN << >>
    ELSE IF items = << >> THEN << >>
    ELSE ParseItems(items, extract_config.year_regex)

\* the texts of list items: empty, blank, without a year, the site token, a
\* title with a year, with two years, with a five-digit number, with four
\* digits that are no year before a year, and with blanks around
ListItemTexts ==
    { << >>, <<" ">>, <<"a">>,
      <<"s", "i", "i", "r", " ", "a", "r", "s", "i", "v", "i">>,
      <<"a", " ", "1", "9", "3", "5">>,
      <<"1", "9", "3", "5", "-", "2", "0", "0", "1">>,
      <<"a", " ", "2", "0", "0", "0", "0">>,
      <<"0", "0", "2", "0", " ", "1", "8", "9", "9">>,
      <<" ", "a", " ", " ", "2", "0", "9", "9", " ">> }

ListInit ==
    /\ listExtract \in [section_css : {None, "li"}, year_regex : YearRegexes]
    /\ listItems \in SeqsUpTo(ListItemTexts, MaxItems)
    /\ listPc = "pending"
    /\ listDocuments = << >>

ListIdle ==
    /\ listExtract = [section_css |-> None, year_regex |-> None]
    /\ listItems = << >>
    /\ listPc = "pending"
    /\ listDocuments = << >>

Parse ==
    /\ listPc = "pending"
    /\ listPc' = "done"
    /\ listDocuments' = parse(listExtract, listItems)
    /\ UNCHANGED <<listExtract, listItems>>

----------------------------------------------------------------------------
(* PDF download: PdfPoemsCrawler.fetch_bytes *)

\* the URLs a download is asked for
PdfUrls == {"https://h/p", "HTTPS://h/p", "http://h/p"}

\* url.lower().startswith("https://")
StartsWithHttps(url) == Lower(url) = "https://h/p"

\* "http://" + request_url[len("https://"):]
HttpForm(url) == "http://h/p"

\* faulty _should_try_http_fallback: the configuration is not consulted
_should_try_http_fallback_always(config, url) == StartsWithHttps(url)

\* _should_try_http_fallback
_should_try_http_fallback(config, url) ==
    IF ~StartsWithHttps(url) THEN FALSE ELSE config.allow_http_fallback

\* retries = max(1, int(self.config.get("fetch_retries", self.max_retries)))
Retries(config) == IF config.fetch_retries < 1 THEN 1 ELSE config.fetch_retries

FetchBytesInit ==
    /\ fbConfig \in [fetch_retries : 0..MaxFetchRetries, allow_http_fallback : BOOLEAN]
    /\ fbUrl \in PdfUrls
    /\ request_url = fbUrl
    /\ allow_fallback = TRUE
    /\ fbAttempt = 0
    /\ last_exc = None
    /\ fbLog = << >>
    /\ fbOutcome = [kind |-> "none", value |-> None]

FetchBytesIdle ==
    /\ fbConfig = [fetch_retries |-> 1, allow_http_fallback |-> FALSE]
    /\ fbUrl = "http://h/p"
    /\ request_url = "http://h/p"
    /\ allow_fallback = TRUE
    /\ fbAttempt = 0
    /\ last_exc = None
    /\ fbLog = << >>
    /\ fbOutcome = [kind |-> "none", value |-> None]

\* session.get succeeds: fetch_bytes returns the content
SessionGetReturns ==
    \E content \in {"pdf1", "pdf2"} :
        /\ fbOutcome.kind = "none"
        /\ fbLog' = Append(fbLog, [url |-> request_url, ok |-> TRUE, value |-> content])
        /\ fbOutcome' = [kind |-> "returned", value |-> content]
        /\ UNCHANGED <<fbConfig, fbUrl, request_url, allow_fallback, fbAttempt, last_exc>>

\* session.get or raise_for_status raises a RequestException, and attempts
\* remain: the loop sleeps and goes on
SessionGetRaises ==
    \E exc \in {"e1", "e2"} :
        /\ fbOutcome.kind = "none"
        /\ fbAttempt + 1 < Retries(fbConfig)
        /\ fbLog' = Append(fbLog, [url |-> request_url, ok |-> FALSE, value |-> exc])
        /\ last_exc' = exc
        /\ fbAttempt' = fbAttempt + 1
        /\ UNCHANGED <<fbConfig, fbUrl, request_url, allow_fallback, fbOutcome>>

\* the last attempt of the call raises: the loop breaks, and fetch_bytes
\* calls itself for the HTTP form of the URL or raises last_exc
LastAttemptRaises ==
    \E exc \in {"e1", "e2"} :
        /\ fbOutcome.kind = "none"
        /\ fbAttempt + 1 >= Retries(fbConfig)
        /\ fbLog' = Append(fbLog, [url |-> request_url, ok |-> FALSE, value |-> exc])
        /\ IF allow_fallback /\ _should_try_http_fallback(fbConfig, request_url)
           THEN /\ request_url' = HttpForm(request_url)
                /\ allow_fallback' = FALSE
                /\ fbAttempt' = 0
                /\ last_exc' = None
                /\ UNCHANGED fbOutcome
           ELSE /\ last_exc' = exc
                /\ fbOutcome' = [kind |-> "raised", value |-> exc]
                /\ UNCHANGED <<request_url, allow_fallback, fbAttempt>>
        /\ UNCHANGED <<fbConfig, fbUrl>>

----------------------------------------------------------------------------
(* Index crawl: PoemPageCrawler._parse_index *)

\* the index pages of a site, every one with a non-empty body
IndexPages == {"http://h/p1", "http://h/p2"}

\* what the detail link of a card holds: no href, or the URL of a detail
\* page written with or without a trailing slash
CardHrefs == {"", "http://h/d1", "http://h/d1/"}

\* detail_url.rstrip("/")
RStripSlash(url) == IF url = "http://h/d1/" THEN "http://h/d1" ELSE url

\* `if next_url in visited: break`
NotVisited(next_url, seen) == next_url \notin seen

\* the loop `for card in cards`; failing holds the positions of the cards
\* whose self.fetch(detail_url) raises
RECURSIVE CardLoop(_, _, _, _)
CardLoop(cards, failing, k, acc) ==
    IF k > Len(cards) THEN acc
    ELSE LET href == cards[k]
             normalized_detail_url == RStripSlash(href)
         IN  IF href = "" \/ normalized_detail_url \in acc.seen
             THEN CardLoop(cards, failing, k + 1, acc)
             ELSE CardLoop(cards, failing, k + 1,
                     [seen |-> acc.seen \cup {normalized_detail_url},
                      fetches |-> Append(acc.fetches, [url |-> href, ok |-> k \notin failing]),
                      documents |-> IF k \in failing THEN acc.documents
                                    ELSE Append(acc.documents, [source_url |-> href])])

IndexInit ==
    /\ idxConfig \in [max_pages : 0..MaxPages, next_css : BOOLEAN]
    /\ idxSite \in [next : [IndexPages -> IndexPages \cup {None}],
                     cards : [IndexPages -> SeqsUpTo(CardHrefs, MaxCards)]]
    /\ page_url = "http://h/p1"
    /\ processed_pages = 0
    /\ visited = {}
    /\ seen_detail_urls = {}
    /\ idxPc = "loop"
    /\ idxPageFetches = <<"http://h/p1">>
    /\ idxProcessed = << >>
    /\ idxDetailFetches = << >>
    /\ idxDocuments = << >>

IndexIdle ==
    /\ idxConfig = [max_pages |-> 0, next_css |-> FALSE]
    /\ idxSite = [next |-> [pg \in IndexPages |-> None],
                  cards |-> [pg \in IndexPages |-> << >>]]
    /\ page_url = "http://h/p1"
    /\ processed_pages = 0
    /\ visited = {}
    /\ seen_detail_urls = {}
    /\ idxPc = "loop"
    /\ idxPageFetches = <<"http://h/p1">>
    /\ idxProcessed = << >>
    /\ idxDetailFetches = << >>
    /\ idxDocuments = << >>

\* the loop condition fails: _parse_index returns documents
ReturnIndexDocuments ==
    /\ idxPc = "loop"
    /\ ~(processed_pages < idxConfig.max_pages)
    /\ idxPc' = "done"
    /\ UNCHANGED <<idxConfig, idxSite, page_url, processed_pages, visited,
                   seen_detail_urls, idxPageFetches, idxProcessed, idxDetailFetches,
                   idxDocuments>>

\* one pass of the while loop: the cards of the page, then the next link;
\* fetched is FALSE when self.fetch(next_url) raises
ProcessIndexPage ==
    \E failing \in SUBSET (1..MaxCards), fetched \in BOOLEAN :
        LET cards == idxSite.cards[page_url]
            done == CardLoop(cards, failing \cap (1..Len(cards)), 1,
                             [seen |-> seen_detail_urls, fetches |-> << >>,
                              documents |-> << >>])
            next_url == idxSite.next[page_url]
            seen == visited \cup {page_url}
        IN  /\ idxPc = "loop"
            /\ processed_pages < idxConfig.max_pages
            /\ failing \subseteq 1..Len(cards)
            /\ processed_pages' = processed_pages + 1
            /\ visited' = seen
            /\ idxProcessed' = Append(idxProcessed, page_url)
            /\ seen_detail_urls' = done.seen
            /\ idxDetailFetches' = idxDetailFetches \o done.fetches
            /\ idxDocuments' = idxDocuments \o done.documents
            /\ IF ~idxConfig.next_css \/ next_url = None \/ ~NotVisited(next_url, seen)
               THEN /\ fetched
                    /\ idxPc' = "done"
                    /\ UNCHANGED <<page_url, idxPageFetches>>
               ELSE IF ~fetched
               THEN /\ idxPc' = "done"
                    /\ UNCHANGED <<page_url, idxPageFetches>>
               ELSE /\ idxPc' = "loop"
                    /\ page_url' = next_url
                    /\ idxPageFetches' = Append(idxPageFetches, next_url)
            /\ UNCHANGED <<idxConfig, idxSite>>

----------------------------------------------------------------------------
(* News archive: NewsCrawler.parse and _parse_body *)

\* clean() on the titles of the model
CleanTitle(title) ==
    CASE title = " T1 " -> "T1"
      [] title = " " -> ""
      [] title = "siir arsivi" -> ""
      [] OTHER -> title

\* the elements a detail page has under full_css, each by its text
DetailPages ==
    {<< >>, <<<<" ">>>>, <<<<"b">>>>, <<<<" ", "b">>>>, <<<<" ">>, <<" ">>>>,
     <<<<"b">>, <<" ">>>>}

\* a card: the href of its link (None without one), the text of its title
\* element ("" without one), and the detail page behind the link
NewsCards ==
    [href : {None}, title : {""}, page : {<< >>}]
        \cup [href : {"http://h/n1"}, title : {"", " T1 "}, page : DetailPages]

\* "\n\n".join(texts)
RECURSIVE JoinBodies(_)
JoinBodies(texts) ==
    IF texts = << >> THEN << >>
    ELSE IF Len(texts) = 1 THEN texts[1]
    ELSE texts[1] \o <<"LF", "LF">> \o JoinBodies(Tail(texts))

\* NewsCrawler._parse_body
_parse_body(page, full_css) ==
    IF ~full_css THEN << >>
    ELSE JoinBodies([k \in 1..Len(page) |-> CleanItem(page[k])])

\* the loop `for card in soup.select(card_css)`; failing holds the positions
\* of the cards whose self.fetch(detail_url) raises; a document also carries
\* the position of the card it was built from
RECURSIVE NewsLoop(_, _, _, _, _)
NewsLoop(cards, full_css, failing, k, acc) ==
    IF k > Len(cards) THEN acc
    ELSE LET card == cards[k]
             body == _parse_body(card.page, full_css)
         IN  IF card.href = None THEN NewsLoop(cards, full_css, failing, k + 1, acc)
             ELSE IF k \in failing
             THEN NewsLoop(cards, full_css, failing, k + 1,
                     [acc EXCEPT !.fetched = Append(@, card.href)])
             ELSE IF body = << >>
             THEN NewsLoop(cards, full_css, failing, k + 1,
                     [acc EXCEPT !.fetched = Append(@, card.href)])
             ELSE NewsLoop(cards, full_css, failing, k + 1,
                     [fetched |-> Append(acc.fetched, card.href),
                      documents |-> Append(acc.documents,
                          [type |-> "news", title |-> CleanTitle(card.title),
                           text_full |-> body, summary |-> << >>,
                           source_url |-> card.href, card |-> k,
                           hash |-> mkhash(<<<<card.href>>, <<CleanTitle(card.title)>>,
                                             body>>)])])

NewsInit ==
    /\ newsConfig \in [full_css : BOOLEAN]
    /\ newsCards \in SeqsUpTo(NewsCards, MaxNewsCards)
    /\ newsPc = "start"
    /\ newsFetched = << >>
    /\ newsDocuments = << >>

NewsIdle ==
    /\ newsConfig = [full_css |-> FALSE]
    /\ newsCards = << >>
    /\ newsPc = "start"
    /\ newsFetched = << >>
    /\ newsDocuments = << >>

\* NewsCrawler.parse on the archive page
NewsParse ==
    \E failing \in SUBSET (1..MaxNewsCards) :
        LET done == NewsLoop(newsCards, newsConfig.full_css, failing, 1,
                             [fetched |-> << >>, documents |-> << >>])
        IN  /\ newsPc = "start"
            /\ \A k \in failing : k <= Len(newsCards) /\ newsCards[k].href # None
            /\ newsPc' = "done"
            /\ newsFetched' = done.fetched
            /\ newsDocuments' = done.documents
            /\ UNCHANGED <<newsConfig, newsCards>>

----------------------------------------------------------------------------
(* Title detection on characters: PdfPoemsCrawler._is_title_candidate *)

UpperLetters == {"A", "B", "C"}
LowerLetters == {"a", "b", "c"}

\* ch.isalpha()
IsAlpha(ch) == ch \in UpperLetters \cup LowerLetters

\* the characters counted by `ch in ",.;:!?"`
PunctuationMarks == {",", ".", ";", ":", "!", "?"}

\* a text of n characters ch
Rep(ch, n) == [k \in 1..n |-> ch]

\* the lines of the model: blank ones, too short, upper case, lower case,
\* title case, mixed case, with punctuation, without letters, with a word
\* that starts with a digit or a bracket, and lines of 60 and 61 characters
TitleTexts ==
    {<< >>, <<" ">>, <<"A", "B">>, <<"A", "B", "C">>, <<"a", "b", "c">>,
     <<" ", "A", "b", "c", " ">>, <<"a", "B", "C">>, <<"a", "B", "c">>,
     <<"A", ".", ".">>, <<"A", ".", ".", "!">>, <<"1", "2", "3">>,
     <<"A", "b", " ", "1", "c">>, <<"A", "b", " ", "(", "c", ")">>,
     <<"A", "b", " ", "c">>,
     Rep("A", 60), Rep("A", 61), Rep("A", 40) \o Rep(".", 20),
     Rep("A", 39) \o Rep(".", 21)}

\* str.isupper(): a cased character and no lower-case one
IsUpper(text) ==
    /\ \E k \in 1..Len(text) : text[k] \in UpperLetters
    /\ \A k \in 1..Len(text) : text[k] \notin LowerLetters

\* str.istitle(): upper case only after an uncased character, lower case only
\* after a cased one, and a cased character
IsTitle(text) ==
    /\ \E k \in 1..Len(text) : IsAlpha(text[k])
    /\ \A k \in 1..Len(text) :
          /\ text[k] \in UpperLetters => (k = 1 \/ ~IsAlpha(text[k - 1]))
          /\ text[k] \in LowerLetters => (k > 1 /\ IsAlpha(text[k - 1]))

\* the positions where the words of text.split() start
WordStarts(text) ==
    {k \in 1..Len(text) : text[k] # " " /\ (k = 1 \/ text[k - 1] = " ")}

\* all(word[:1].isupper() for word in stripped.split() if word and word[:1].isalpha())
capitalized_words(stripped) ==
    \A k \in WordStarts(stripped) : IsAlpha(stripped[k]) => stripped[k] \in UpperLetters

\* faulty limit: one third of the length, without the floor of two
PunctuationLimit_third(n) == n \div 3

\* max(2, len(stripped) // 3)
PunctuationLimit(n) == IF n \div 3 > 2 THEN n \div 3 ELSE 2

\* the tests of _is_title_candidate on the stripped line
TitleTests(stripped) ==
    LET letters == {k \in 1..Len(stripped) : IsAlpha(stripped[k])}
        uppers  == {k \in letters : stripped[k] \in UpperLetters}
        punctuation_count ==
            Cardinality({k \in 1..Len(stripped) : stripped[k] \in PunctuationMarks})
    IN  /\ 3 <= Len(stripped) /\ Len(stripped) <= 60
        /\ letters # {}
        /\ ~(punctuation_count > PunctuationLimit(Len(stripped)))
        /\ \/ IsUpper(stripped)
           \/ 100 * Cardinality(uppers) >= 65 * Cardinality(letters)
           \/ IsTitle(stripped)
           \/ capitalized_words(stripped)

\* _next_non_empty_line on such lines: is there a later line that is not blank
HasNextNonEmpty(lines, idx) ==
    \E pos \in (idx + 1)..Len(lines) : StripText(lines[pos]) # << >>

\* _is_title_candidate on a line given character by character
IsTitleCandidate(line, lines, idx) ==
    LET stripped == StripText(line)
    IN  /\ 3 <= Len(stripped) /\ Len(stripped) <= 60
        /\ HasNextNonEmpty(lines, idx)
        /\ TitleTests(stripped)

\* _detect_title_indices on such lines: the set of the indices it appends
DetectTitleIndices(lines) ==
    {idx \in 1..Len(lines) :
        /\ StripText(lines[idx]) # << >>
        /\ ~(idx > 1 /\ StripText(lines[idx - 1]) # << >>)
        /\ IsTitleCandidate(lines[idx], lines, idx)}

TitleInit ==
    /\ tdLines \in SeqsUpTo(TitleTexts, MaxTitleLines)
    /\ tdPc = "start"
    /\ tdIndices = {}

TitleIdle ==
    /\ tdLines = << >>
    /\ tdPc = "start"
    /\ tdIndices = {}

\* self._detect_title_indices(lines)
DetectTitles ==
    /\ tdPc = "start"
    /\ tdPc' = "done"
    /\ tdIndices' = DetectTitleIndices(tdLines)
    /\ UNCHANGED tdLines

----------------------------------------------------------------------------
(* ETL normalize stage: src/etl/steps/normalize.py *)

\* _normalize_date on the dates of the model; None for no date
_normalize_date(value) ==
    CASE value = "" -> None
      [] value = " " -> None
      [] value = "2020-02-01T10:00:00" -> "2020-02-01"
      [] value = "01.02.2020" -> "2020-02-01"
      [] value = "2020" -> "2020-01-01"
      [] OTHER -> value

\* int(item["year"]) of a string year; NoYear (None) on ValueError
YearOf(year) ==
    IF year # << >> /\ \A k \in 1..Len(year) : year[k] \in DecimalDigits
    THEN int(year) ELSE NoYear

\* the fields a raw record may carry besides kind, hash and title
NormExtras ==
    {EmptyDict,
     ("source_url" :> "U1") @@ ("text_full" :> <<" ", "b", " ">>)
        @@ ("date" :> "01.02.2020") @@ ("year" :> <<"1", "9">>) @@ ("work_type" :> "poem"),
     ("source_id" :> "S1") @@ ("summary" :> <<" ", "s">>) @@ ("lang" :> "en")
        @@ ("type" :> "essay") @@ ("date" :> "soon") @@ ("year" :> <<"x">>)
        @@ ("created_at" :> 1) @@ ("author" :> "A") @@ ("license" :> "cc")}

NormRecords ==
    {Opt("kind", kind, kind # NoStr) @@ Opt("hash", hash, hash # NoStr)
        @@ Opt("title", title, title # NoStr) @@ extra :
        kind \in {NoStr, "news"}, hash \in {NoStr, "h1"},
        title \in {NoStr, " T1 ", "siir arsivi"}, extra \in NormExtras}

\* faulty item: the hash is dropped when the title was changed by clean()
NormalizeItem_rehashed(record, t) ==
    LET item == Put(record, "title", CleanTitle(Get(record, "title")))
    IN  IF Get(record, "title") # item["title"] THEN Pop(item, "hash") ELSE item

\* the body of the loop of normalize_records; t is the now() read
NormalizeItem(record, t) ==
    LET item1 == Put(record, "title", CleanTitle(Get(record, "title")))
        item2 == Put(item1, "summary", CleanItem(Get(item1, "summary")))
        item3 == Put(item2, "text_full", StripText(Get(item2, "text_full")))
        item4 == Put(item3, "lang", IF Truthy(item3, "lang") THEN item3["lang"] ELSE "tr")
        item5 == Put(item4, "type",
                     IF Truthy(item4, "type") THEN item4["type"]
                     ELSE IF Truthy(item4, "work_type") THEN item4["work_type"]
                     ELSE "unknown")
        item6 == Put(item5, "date", _normalize_date(Get(item5, "date")))
        item7 == IF "year" \in DOMAIN item6 THEN Put(item6, "year", YearOf(item6["year"]))
                 ELSE item6
    IN  SetDefault(SetDefault(SetDefault(item7, "author", "Nazim Hikmet"),
                              "license", "unknown"),
                   "created_at", t)

\* normalize_records: the list returned, and the caller's records after the
\* call (each item is a deepcopy of its record)
normalize_records(records, t) ==
    [normalized |-> [i \in 1..Len(records) |-> NormalizeItem(records[i], t)],
     records |-> records]

NormalizeInit ==
    /\ nzRecords \in SeqsUpTo(NormRecords, MaxNormBatch)
    /\ nzPc = "start"
    /\ nzNormalized = << >>

NormalizeIdle ==
    /\ nzRecords = << >>
    /\ nzPc = "start"
    /\ nzNormalized = << >>

NormalizeRecords ==
    \E t \in 1..MaxClock :
        LET result == normalize_records(nzRecords, t)
        IN  /\ nzPc = "start"
            /\ nzPc' = "done"
            /\ nzNormalized' = result.normalized
            /\ nzRecords' = result.records

----------------------------------------------------------------------------
(* A crawler from creation to close: src/zen/steps/crawl.py, src/crawler/base.py *)

\* the crawler classes by what they hold: nothing (the HTML crawlers), a
\* WebDriver built on first use, a requests session built by __init__
LifeClasses == {"BaseCrawler", "BaseSeleniumCrawler", "PdfPoemsCrawler"}

\* __init__ of the class
NewCrawler(cls) ==
    [cls |-> cls, _driver |-> None,
     _session |-> IF cls = "PdfPoemsCrawler" THEN "open" ELSE None]

\* BaseSeleniumCrawler._ensure_driver; built is FALSE when build_driver raises
_ensure_driver(self, built) ==
    IF self._driver = None /\ built THEN [self EXCEPT !._driver = "live"] ELSE self

\* close() of the class: BaseSeleniumCrawler quits a driver and drops it,
\* whether quit() raises or not; every other class inherits the empty
\* BaseCrawler.close
close(self) ==
    IF self.cls = "BaseSeleniumCrawler" /\ self._driver # None
    THEN [self EXCEPT !._driver = None]
    ELSE self

LifeInit ==
    /\ lcCrawler \in {NewCrawler(cls) : cls \in LifeClasses}
    /\ lcLinks \in 0..MaxLinks
    /\ lcLink = 1
    /\ lcPc = "links"
    /\ lcLog = << >>
    /\ lcCloses = 0

LifeIdle ==
    /\ lcCrawler = NewCrawler("BaseCrawler")
    /\ lcLinks = 0
    /\ lcLink = 1
    /\ lcPc = "links"
    /\ lcLog = << >>
    /\ lcCloses = 0

\* crawler.extract(link, user) returns; a Selenium crawler has fetched the
\* page with its driver
LinkExtracted ==
    /\ lcPc = "links" /\ lcLink <= lcLinks
    /\ lcCrawler' = IF lcCrawler.cls = "BaseSeleniumCrawler"
                    THEN _ensure_driver(lcCrawler, TRUE) ELSE lcCrawler
    /\ lcLog' = Append(lcLog, TRUE)
    /\ lcLink' = lcLink + 1
    /\ UNCHANGED <<lcLinks, lcPc, lcCloses>>

\* crawler.extract(link, user) raises: the except branch records the error
\* and continues; a Selenium crawler failed in build_driver or after it
LinkFailed ==
    \E built \in BOOLEAN :
        /\ lcPc = "links" /\ lcLink <= lcLinks
        /\ lcCrawler' = IF lcCrawler.cls = "BaseSeleniumCrawler"
                        THEN _ensure_driver(lcCrawler, built) ELSE lcCrawler
        /\ (lcCrawler.cls # "BaseSeleniumCrawler" => built)
        /\ lcLog' = Append(lcLog, FALSE)
        /\ lcLink' = lcLink + 1
        /\ UNCHANGED <<lcLinks, lcPc, lcCloses>>

\* the finally branch after the loop over the links: crawler.close()
CloseCrawler ==
    /\ lcPc = "links" /\ lcLink > lcLinks
    /\ lcCrawler' = close(lcCrawler)
    /\ lcCloses' = lcCloses + 1
    /\ lcPc' = "closed"
    /\ UNCHANGED <<lcLinks, lcLink, lcLog>>

----------------------------------------------------------------------------
(* mkhash on the parts of two records: src/crawler/utils/text.py *)

\* the characters of a part: a letter and the character mkhash joins with
PartChars == {"a", "|"}

\* (url, title, body)
PartTuples == [1..3 -> SeqsUpTo(PartChars, MaxPartLen)]

MkhashInit ==
    /\ mhFirst \in PartTuples
    /\ mhSecond \in PartTuples
    /\ mhPc = "start"
    /\ mhHashes = << >>

MkhashIdle ==
    /\ mhFirst = <<<< >>, << >>, << >>>>
    /\ mhSecond = <<<< >>, << >>, << >>>>
    /\ mhPc = "start"
    /\ mhHashes = << >>

\* mkhash(url, title, body) for both records
HashRecords ==
    /\ mhPc = "start"
    /\ mhPc' = "done"
    /\ mhHashes' = <<mkhash(mhFirst), mkhash(mhSecond)>>
    /\ UNCHANGED <<mhFirst, mhSecond>>

----------------------------------------------------------------------------
(* Specifications *)

\* the variables that the store stage leaves alone
ExceptStore ==
    <<docVars, dedupVars, registryVars, extractVars,
      safeModeVars, fetchVars, runVars, pdfVars,
      cidVars, pdfRunVars, hashVars, listVars,
      fetchBytesVars, indexVars, newsVars, titleVars,
      normalizeVars, lifeVars, mkhashVars>>

\* the variables that the validation layer leaves alone
ExceptDoc ==
    <<storeVars, dedupVars, registryVars, extractVars,
      safeModeVars, fetchVars, runVars, pdfVars,
      cidVars, pdfRunVars, hashVars, listVars,
      fetchBytesVars, indexVars, newsVars, titleVars,
      normalizeVars, lifeVars, mkhashVars>>

\* the variables that the dedupe stage leaves alone
ExceptDedup ==
    <<storeVars, docVars, registryVars, extractVars,
      safeModeVars, fetchVars, runVars, pdfVars,
      cidVars, pdfRunVars, hashVars, listVars,
      fetchBytesVars, indexVars, newsVars, titleVars,
      normalizeVars, lifeVars, mkhashVars>>

\* the variables that the crawler registry leaves alone
ExceptRegistry ==
    <<storeVars, docVars, dedupVars, extractVars,
      safeModeVars, fetchVars, runVars, pdfVars,
      cidVars, pdfRunVars, hashVars, listVars,
      fetchBytesVars, indexVars, newsVars, titleVars,
      normalizeVars, lifeVars, mkhashVars>>

\* the variables that extraction by a crawler leaves alone
ExceptExtract ==
    <<storeVars, docVars, dedupVars, registryVars,
      safeModeVars, fetchVars, runVars, pdfVars,
      cidVars, pdfRunVars, hashVars, listVars,
      fetchBytesVars, indexVars, newsVars, titleVars,
      normalizeVars, lifeVars, mkhashVars>>

\* the variables that safe-mode resolution leaves alone
ExceptSafeMode ==
    <<storeVars, docVars, dedupVars, registryVars,
      extractVars, fetchVars, runVars, pdfVars,
      cidVars, pdfRunVars, hashVars, listVars,
      fetchBytesVars, indexVars, newsVars, titleVars,
      normalizeVars, lifeVars, mkhashVars>>

\* the variables that fetch with retries leaves alone
ExceptFetch ==
    <<storeVars, docVars, dedupVars, registryVars,
      extractVars, safeModeVars, runVars, pdfVars,
      cidVars, pdfRunVars, hashVars, listVars,
      fetchBytesVars, indexVars, newsVars, titleVars,
      normalizeVars, lifeVars, mkhashVars>>

\* the variables that a crawl run leaves alone
ExceptRun ==
    <<storeVars, docVars, dedupVars, registryVars,
      extractVars, safeModeVars, fetchVars, pdfVars,
      cidVars, pdfRunVars, hashVars, listVars,
      fetchBytesVars, indexVars, newsVars, titleVars,
      normalizeVars, lifeVars, mkhashVars>>

\* the variables that PDF segmentation leaves alone
ExceptSplit ==
    <<storeVars, docVars, dedupVars, registryVars,
      extractVars, safeModeVars, fetchVars, runVars,
      cidVars, pdfRunVars, hashVars, listVars,
      fetchBytesVars, indexVars, newsVars, titleVars,
      normalizeVars, lifeVars, mkhashVars>>

\* the variables that CID repair leaves alone
ExceptCid ==
    <<storeVars, docVars, dedupVars, registryVars,
      extractVars, safeModeVars, fetchVars, runVars,
      pdfVars, pdfRunVars, hashVars, listVars,
      fetchBytesVars, indexVars, newsVars, titleVars,
      normalizeVars, lifeVars, mkhashVars>>

\* the variables that the PdfPoemsCrawler instances leaves alone
ExceptPdfRun ==
    <<storeVars, docVars, dedupVars, registryVars,
      extractVars, safeModeVars, fetchVars, runVars,
      pdfVars, cidVars, hashVars, listVars,
      fetchBytesVars, indexVars, newsVars, titleVars,
      normalizeVars, lifeVars, mkhashVars>>

\* the variables that the content hash leaves alone
ExceptHash ==
    <<storeVars, docVars, dedupVars, registryVars,
      extractVars, safeModeVars, fetchVars, runVars,
      pdfVars, cidVars, pdfRunVars, listVars,
      fetchBytesVars, indexVars, newsVars, titleVars,
      normalizeVars, lifeVars, mkhashVars>>

\* the variables that crawler discovery leaves alone
ExceptDiscovery ==
    <<storeVars, docVars, dedupVars, extractVars,
      safeModeVars, fetchVars, runVars, pdfVars,
      cidVars, pdfRunVars, hashVars, listVars,
      fetchBytesVars, indexVars, newsVars, titleVars,
      normalizeVars, lifeVars, mkhashVars>>

\* the variables that the static list crawler leaves alone
ExceptList ==
    <<storeVars, docVars, dedupVars, registryVars,
      extractVars, safeModeVars, fetchVars, runVars,
      pdfVars, cidVars, pdfRunVars, hashVars,
      fetchBytesVars, indexVars, newsVars, titleVars,
      normalizeVars, lifeVars, mkhashVars>>

\* the variables that the PDF download leaves alone
ExceptFetchBytes ==
    <<storeVars, docVars, dedupVars, registryVars,
      extractVars, safeModeVars, fetchVars, runVars,
      pdfVars, cidVars, pdfRunVars, hashVars,
      listVars, indexVars, newsVars, titleVars,
      normalizeVars, lifeVars, mkhashVars>>

\* the variables that the index crawl leaves alone
ExceptIndex ==
    <<storeVars, docVars, dedupVars, registryVars,
      extractVars, safeModeVars, fetchVars, runVars,
      pdfVars, cidVars, pdfRunVars, hashVars,
      listVars, fetchBytesVars, newsVars, titleVars,
      normalizeVars, lifeVars, mkhashVars>>

\* the variables that the news archive crawler leaves alone
ExceptNews ==
    <<storeVars, docVars, dedupVars, registryVars,
      extractVars, safeModeVars, fetchVars, runVars,
      pdfVars, cidVars, pdfRunVars, hashVars,
      listVars, fetchBytesVars, indexVars, titleVars,
      normalizeVars, lifeVars, mkhashVars>>

\* the variables that title detection leaves alone
ExceptTitles ==
    <<storeVars, docVars, dedupVars, registryVars,
      extractVars, safeModeVars, fetchVars, runVars,
      pdfVars, cidVars, pdfRunVars, hashVars,
      listVars, fetchBytesVars, indexVars, newsVars,
      normalizeVars, lifeVars, mkhashVars>>

\* the variables that the normalize stage leaves alone
ExceptNormalize ==
    <<storeVars, docVars, dedupVars, registryVars,
      extractVars, safeModeVars, fetchVars, runVars,
      pdfVars, cidVars, pdfRunVars, hashVars,
      listVars, fetchBytesVars, indexVars, newsVars,
      titleVars, lifeVars, mkhashVars>>

\* the variables that one crawler from creation to close leaves alone
ExceptLife ==
    <<storeVars, docVars, dedupVars, registryVars,
      extractVars, safeModeVars, fetchVars, runVars,
      pdfVars, cidVars, pdfRunVars, hashVars,
      listVars, fetchBytesVars, indexVars, newsVars,
      titleVars, normalizeVars, mkhashVars>>

\* the variables that mkhash on two tuples of parts leaves alone
ExceptMkhash ==
    <<storeVars, docVars, dedupVars, registryVars,
      extractVars, safeModeVars, fetchVars, runVars,
      pdfVars, cidVars, pdfRunVars, hashVars,
      listVars, fetchBytesVars, indexVars, newsVars,
      titleVars, normalizeVars, lifeVars>>

\* the store stage
Init ==
    StoreInit /\ DocIdle /\ DedupIdle /\ RegistryInit
    /\ ExtractIdle /\ SafeModeIdle /\ FetchIdle /\ RunIdle
    /\ PdfIdle /\ CidIdle /\ PdfRunIdle /\ HashIdle
    /\ ListIdle /\ FetchBytesIdle /\ IndexIdle /\ NewsIdle
    /\ TitleIdle /\ NormalizeIdle /\ LifeIdle /\ MkhashIdle
Next == StoreCall /\ UNCHANGED ExceptStore
Spec == Init /\ [][Next]_vars

\* the validation layer
InitDoc ==
    StoreInit /\ DocInit /\ DedupIdle /\ RegistryInit
    /\ ExtractIdle /\ SafeModeIdle /\ FetchIdle /\ RunIdle
    /\ PdfIdle /\ CidIdle /\ PdfRunIdle /\ HashIdle
    /\ ListIdle /\ FetchBytesIdle /\ IndexIdle /\ NewsIdle
    /\ TitleIdle /\ NormalizeIdle /\ LifeIdle /\ MkhashIdle
NextDoc ==
    \/ BuildDocument /\ UNCHANGED ExceptDoc
    \/ ConstructDocument /\ UNCHANGED ExceptDoc
SpecDoc == InitDoc /\ [][NextDoc]_vars

\* the dedupe stage
InitDedup ==
    StoreInit /\ DocIdle /\ DedupInit /\ RegistryInit
    /\ ExtractIdle /\ SafeModeIdle /\ FetchIdle /\ RunIdle
    /\ PdfIdle /\ CidIdle /\ PdfRunIdle /\ HashIdle
    /\ ListIdle /\ FetchBytesIdle /\ IndexIdle /\ NewsIdle
    /\ TitleIdle /\ NormalizeIdle /\ LifeIdle /\ MkhashIdle
NextDedup == Dedupe /\ UNCHANGED ExceptDedup
SpecDedup == InitDedup /\ [][NextDedup]_vars

\* the crawler registry
InitRegistry ==
    StoreInit /\ DocIdle /\ DedupIdle /\ RegistryInit
    /\ ExtractIdle /\ SafeModeIdle /\ FetchIdle /\ RunIdle
    /\ PdfIdle /\ CidIdle /\ PdfRunIdle /\ HashIdle
    /\ ListIdle /\ FetchBytesIdle /\ IndexIdle /\ NewsIdle
    /\ TitleIdle /\ NormalizeIdle /\ LifeIdle /\ MkhashIdle
NextRegistry ==
    \/ RegisterCrawler /\ UNCHANGED ExceptRegistry
    \/ ImportCrawlerModules /\ UNCHANGED ExceptRegistry
    \/ ResolveCrawler /\ UNCHANGED ExceptRegistry
SpecRegistry == InitRegistry /\ [][NextRegistry]_vars

\* extraction by a crawler
InitExtract ==
    StoreInit /\ DocIdle /\ DedupIdle /\ RegistryInit
    /\ ExtractInit /\ SafeModeIdle /\ FetchIdle /\ RunIdle
    /\ PdfIdle /\ CidIdle /\ PdfRunIdle /\ HashIdle
    /\ ListIdle /\ FetchBytesIdle /\ IndexIdle /\ NewsIdle
    /\ TitleIdle /\ NormalizeIdle /\ LifeIdle /\ MkhashIdle
NextExtract == Extract /\ UNCHANGED ExceptExtract
SpecExtract == InitExtract /\ [][NextExtract]_vars

\* safe-mode resolution
InitSafeMode ==
    StoreInit /\ DocIdle /\ DedupIdle /\ RegistryInit
    /\ ExtractIdle /\ SafeModeInit /\ FetchIdle /\ RunIdle
    /\ PdfIdle /\ CidIdle /\ PdfRunIdle /\ HashIdle
    /\ ListIdle /\ FetchBytesIdle /\ IndexIdle /\ NewsIdle
    /\ TitleIdle /\ NormalizeIdle /\ LifeIdle /\ MkhashIdle
NextSafeMode ==
    \/ get_or_create_source /\ UNCHANGED ExceptSafeMode
    \/ crawl_links /\ UNCHANGED ExceptSafeMode
SpecSafeMode == InitSafeMode /\ [][NextSafeMode]_vars

\* fetch with retries
InitFetch ==
    StoreInit /\ DocIdle /\ DedupIdle /\ RegistryInit
    /\ ExtractIdle /\ SafeModeIdle /\ FetchInit /\ RunIdle
    /\ PdfIdle /\ CidIdle /\ PdfRunIdle /\ HashIdle
    /\ ListIdle /\ FetchBytesIdle /\ IndexIdle /\ NewsIdle
    /\ TitleIdle /\ NormalizeIdle /\ LifeIdle /\ MkhashIdle
NextFetch ==
    \/ fetch /\ UNCHANGED ExceptFetch
    \/ HttpGetReturns /\ UNCHANGED ExceptFetch
    \/ HttpGetRaises /\ UNCHANGED ExceptFetch
    \/ RetriesExhausted /\ UNCHANGED ExceptFetch
SpecFetch == InitFetch /\ [][NextFetch]_vars

\* a crawl run
InitRun ==
    StoreInit /\ DocIdle /\ DedupIdle /\ RegistryInit
    /\ ExtractIdle /\ SafeModeIdle /\ FetchIdle /\ RunInit
    /\ PdfIdle /\ CidIdle /\ PdfRunIdle /\ HashIdle
    /\ ListIdle /\ FetchBytesIdle /\ IndexIdle /\ NewsIdle
    /\ TitleIdle /\ NormalizeIdle /\ LifeIdle /\ MkhashIdle
NextRun ==
    \/ LoadSources /\ UNCHANGED ExceptRun
    \/ StartSource /\ UNCHANGED ExceptRun
    \/ ExtractReturns /\ UNCHANGED ExceptRun
    \/ ExtractRaises /\ UNCHANGED ExceptRun
    \/ FinishSource /\ UNCHANGED ExceptRun
    \/ ReturnDocuments /\ UNCHANGED ExceptRun
SpecRun == InitRun /\ [][NextRun]_vars

\* PDF segmentation
InitSplit ==
    StoreInit /\ DocIdle /\ DedupIdle /\ RegistryInit
    /\ ExtractIdle /\ SafeModeIdle /\ FetchIdle /\ RunIdle
    /\ PdfInit /\ CidIdle /\ PdfRunIdle /\ HashIdle
    /\ ListIdle /\ FetchBytesIdle /\ IndexIdle /\ NewsIdle
    /\ TitleIdle /\ NormalizeIdle /\ LifeIdle /\ MkhashIdle
NextSplit == SplitPoems /\ UNCHANGED ExceptSplit
SpecSplit == InitSplit /\ [][NextSplit]_vars

\* CID repair
InitCid ==
    StoreInit /\ DocIdle /\ DedupIdle /\ RegistryInit
    /\ ExtractIdle /\ SafeModeIdle /\ FetchIdle /\ RunIdle
    /\ PdfIdle /\ CidInit /\ PdfRunIdle /\ HashIdle
    /\ ListIdle /\ FetchBytesIdle /\ IndexIdle /\ NewsIdle
    /\ TitleIdle /\ NormalizeIdle /\ LifeIdle /\ MkhashIdle
NextCid == ReplaceCidSequences /\ UNCHANGED ExceptCid
SpecCid == InitCid /\ [][NextCid]_vars

\* the PdfPoemsCrawler instances
InitPdfRun ==
    StoreInit /\ DocIdle /\ DedupIdle /\ RegistryInit
    /\ ExtractIdle /\ SafeModeIdle /\ FetchIdle /\ RunIdle
    /\ PdfIdle /\ CidIdle /\ PdfRunInit /\ HashIdle
    /\ ListIdle /\ FetchBytesIdle /\ IndexIdle /\ NewsIdle
    /\ TitleIdle /\ NormalizeIdle /\ LifeIdle /\ MkhashIdle
NextPdfRun == PdfExtractCall /\ UNCHANGED ExceptPdfRun
SpecPdfRun == InitPdfRun /\ [][NextPdfRun]_vars

\* the content hash
InitHash ==
    StoreInit /\ DocIdle /\ DedupIdle /\ RegistryInit
    /\ ExtractIdle /\ SafeModeIdle /\ FetchIdle /\ RunIdle
    /\ PdfIdle /\ CidIdle /\ PdfRunIdle /\ HashInit
    /\ ListIdle /\ FetchBytesIdle /\ IndexIdle /\ NewsIdle
    /\ TitleIdle /\ NormalizeIdle /\ LifeIdle /\ MkhashIdle
NextHash ==
    \/ Rerender /\ UNCHANGED ExceptHash
    \/ ComputeHash /\ UNCHANGED ExceptHash
SpecHash == InitHash /\ [][NextHash]_vars

\* crawler discovery
InitDiscovery ==
    StoreInit /\ DocIdle /\ DedupIdle /\ RegistryInit
    /\ ExtractIdle /\ SafeModeIdle /\ FetchIdle /\ RunIdle
    /\ PdfIdle /\ CidIdle /\ PdfRunIdle /\ HashIdle
    /\ ListIdle /\ FetchBytesIdle /\ IndexIdle /\ NewsIdle
    /\ TitleIdle /\ NormalizeIdle /\ LifeIdle /\ MkhashIdle
NextDiscovery ==
    \/ RegisterCrawler /\ UNCHANGED ExceptDiscovery
    \/ ImportCrawlerModules /\ UNCHANGED ExceptDiscovery
    \/ ResolveDefault /\ UNCHANGED ExceptDiscovery
    \/ AvailableCrawlers /\ UNCHANGED ExceptDiscovery
SpecDiscovery == InitDiscovery /\ [][NextDiscovery]_vars

\* the static list crawler
InitList ==
    StoreInit /\ DocIdle /\ DedupIdle /\ RegistryInit
    /\ ExtractIdle /\ SafeModeIdle /\ FetchIdle /\ RunIdle
    /\ PdfIdle /\ CidIdle /\ PdfRunIdle /\ HashIdle
    /\ ListInit /\ FetchBytesIdle /\ IndexIdle /\ NewsIdle
    /\ TitleIdle /\ NormalizeIdle /\ LifeIdle /\ MkhashIdle
NextList == Parse /\ UNCHANGED ExceptList
SpecList == InitList /\ [][NextList]_vars

\* the PDF download
InitFetchBytes ==
    StoreInit /\ DocIdle /\ DedupIdle /\ RegistryInit
    /\ ExtractIdle /\ SafeModeIdle /\ FetchIdle /\ RunIdle
    /\ PdfIdle /\ CidIdle /\ PdfRunIdle /\ HashIdle
    /\ ListIdle /\ FetchBytesInit /\ IndexIdle /\ NewsIdle
    /\ TitleIdle /\ NormalizeIdle /\ LifeIdle /\ MkhashIdle
NextFetchBytes ==
    \/ SessionGetReturns /\ UNCHANGED ExceptFetchBytes
    \/ SessionGetRaises /\ UNCHANGED ExceptFetchBytes
    \/ LastAttemptRaises /\ UNCHANGED ExceptFetchBytes
SpecFetchBytes == InitFetchBytes /\ [][NextFetchBytes]_vars

\* the index crawl
InitIndex ==
    StoreInit /\ DocIdle /\ DedupIdle /\ RegistryInit
    /\ ExtractIdle /\ SafeModeIdle /\ FetchIdle /\ RunIdle
    /\ PdfIdle /\ CidIdle /\ PdfRunIdle /\ HashIdle
    /\ ListIdle /\ FetchBytesIdle /\ IndexInit /\ NewsIdle
    /\ TitleIdle /\ NormalizeIdle /\ LifeIdle /\ MkhashIdle
NextIndex ==
    \/ ReturnIndexDocuments /\ UNCHANGED ExceptIndex
    \/ ProcessIndexPage /\ UNCHANGED ExceptIndex
SpecIndex == InitIndex /\ [][NextIndex]_vars

\* the news archive crawler
InitNews ==
    StoreInit /\ DocIdle /\ DedupIdle /\ RegistryInit
    /\ ExtractIdle /\ SafeModeIdle /\ FetchIdle /\ RunIdle
    /\ PdfIdle /\ CidIdle /\ PdfRunIdle /\ HashIdle
    /\ ListIdle /\ FetchBytesIdle /\ IndexIdle /\ NewsInit
    /\ TitleIdle /\ NormalizeIdle /\ LifeIdle /\ MkhashIdle
NextNews == NewsParse /\ UNCHANGED ExceptNews
SpecNews == InitNews /\ [][NextNews]_vars

\* title detection
InitTitles ==
    StoreInit /\ DocIdle /\ DedupIdle /\ RegistryInit
    /\ ExtractIdle /\ SafeModeIdle /\ FetchIdle /\ RunIdle
    /\ PdfIdle /\ CidIdle /\ PdfRunIdle /\ HashIdle
    /\ ListIdle /\ FetchBytesIdle /\ IndexIdle /\ NewsIdle
    /\ TitleInit /\ NormalizeIdle /\ LifeIdle /\ MkhashIdle
NextTitles == DetectTitles /\ UNCHANGED ExceptTitles
SpecTitles == InitTitles /\ [][NextTitles]_vars

\* the normalize stage
InitNormalize ==
    StoreInit /\ DocIdle /\ DedupIdle /\ RegistryInit
    /\ ExtractIdle /\ SafeModeIdle /\ FetchIdle /\ RunIdle
    /\ PdfIdle /\ CidIdle /\ PdfRunIdle /\ HashIdle
    /\ ListIdle /\ FetchBytesIdle /\ IndexIdle /\ NewsIdle
    /\ TitleIdle /\ NormalizeInit /\ LifeIdle /\ MkhashIdle
NextNormalize == NormalizeRecords /\ UNCHANGED ExceptNormalize
SpecNormalize == InitNormalize /\ [][NextNormalize]_vars

\* one crawler from creation to close
InitLife ==
    StoreInit /\ DocIdle /\ DedupIdle /\ RegistryInit
    /\ ExtractIdle /\ SafeModeIdle /\ FetchIdle /\ RunIdle
    /\ PdfIdle /\ CidIdle /\ PdfRunIdle /\ HashIdle
    /\ ListIdle /\ FetchBytesIdle /\ IndexIdle /\ NewsIdle
    /\ TitleIdle /\ NormalizeIdle /\ LifeInit /\ MkhashIdle
NextLife ==
    \/ LinkExtracted /\ UNCHANGED ExceptLife
    \/ LinkFailed /\ UNCHANGED ExceptLife
    \/ CloseCrawler /\ UNCHANGED ExceptLife
SpecLife == InitLife /\ [][NextLife]_vars

\* mkhash on two tuples of parts
InitMkhash ==
    StoreInit /\ DocIdle /\ DedupIdle /\ RegistryInit
    /\ ExtractIdle /\ SafeModeIdle /\ FetchIdle /\ RunIdle
    /\ PdfIdle /\ CidIdle /\ PdfRunIdle /\ HashIdle
    /\ ListIdle /\ FetchBytesIdle /\ IndexIdle /\ NewsIdle
    /\ TitleIdle /\ NormalizeIdle /\ LifeIdle /\ MkhashInit
NextMkhash == HashRecords /\ UNCHANGED ExceptMkhash
SpecMkhash == InitMkhash /\ [][NextMkhash]_vars

----------------------------------------------------------------------------
(* Properties of the store stage *)

\* the upsert key of a stored document and of a raw record
KeyOf(d) == <<d["kind"], d["source_id"]>>
RecordKey(r) == <<Get(r, "kind"), DeriveSourceId(r)>>
Keys(coll) == {KeyOf(coll[i]) : i \in DOMAIN coll}
BatchKeys(batch) == {RecordKey(batch[i]) : i \in DOMAIN batch}
FirstWith(batch, k) == CHOOSE i \in DOMAIN batch :
    RecordKey(batch[i]) = k /\ \A j \in DOMAIN batch : RecordKey(batch[j]) = k => i <= j
LastWith(batch, k) == CHOOSE i \in DOMAIN batch :
    RecordKey(batch[i]) = k /\ \A j \in DOMAIN batch : RecordKey(batch[j]) = k => j <= i

\* a store_records call that returned takes the step
Returned == calls' = calls + 1 /\ lastOutcome' = "returned"

\* C1: the created_at stored under an upsert key is the one written by the
\* call that first inserted the key (the first record of that key in the
\* batch: its own created_at, else the clock reading of that call), and no
\* later write to the key changes it.
C1_CreatedAtStep ==
    /\ \A i \in DOMAIN collection : \A j \in DOMAIN collection' :
          KeyOf(collection'[j]) = KeyOf(collection[i])
            => collection'[j]["created_at"] = collection[i]["created_at"]
    /\ \A j \in DOMAIN collection' :
          KeyOf(collection'[j]) \notin Keys(collection) =>
            LET first == lastBatch'[FirstWith(lastBatch', KeyOf(collection'[j]))]
            IN  IF Truthy(first, "created_at")
                THEN collection'[j]["created_at"] = first["created_at"]
                ELSE collection'[j]["created_at"] \in clock..clock'
C1_CreatedAtFixed == [][C1_CreatedAtStep]_vars

\* C1 witness: a later call wrote a record with its own, different created_at
\* to a key that already existed
C1_Witness ==
    /\ calls >= 2 /\ lastOutcome = "returned" /\ lastInserted = 0
    /\ \E i \in DOMAIN lastBatch : \E j \in DOMAIN collection :
          /\ RecordKey(lastBatch[i]) = KeyOf(collection[j])
          /\ Truthy(lastBatch[i], "created_at")
          /\ lastBatch[i]["created_at"] # collection[j]["created_at"]

\* the stored documents agree on every field but updated_at
SameButUpdatedAt(d, e) ==
    /\ DOMAIN d = DOMAIN e
    /\ \A f \in DOMAIN d \ {"updated_at"} : d[f] = e[f]

\* C2: storing the batch of the previous call again returns 0 and leaves every
\* stored document as it was, except for updated_at, which does not decrease.
C2_IdempotentStep ==
    (calls > 0 /\ lastOutcome = "returned" /\ calls' = calls + 1 /\ lastBatch' = lastBatch)
      => /\ lastOutcome' = "returned"
         /\ lastInserted' = 0
         /\ Len(collection') = Len(collection)
         /\ \A i \in DOMAIN collection :
               /\ SameButUpdatedAt(collection[i], collection'[i])
               /\ collection'[i]["updated_at"] >= collection[i]["updated_at"]
C2_Idempotent == [][C2_IdempotentStep]_vars

\* C2 witness: a batch of two records was stored twice in a row and the second
\* run refreshed updated_at
C2_Witness ==
    /\ repeated /\ lastOutcome = "returned" /\ Len(lastBatch) >= 2
    /\ \E i \in DOMAIN collection : collection[i]["updated_at"] > collection[i]["created_at"]

\* no two stored documents share an upsert key
OneDocumentPerKey ==
    \A i, j \in DOMAIN collection : KeyOf(collection[i]) = KeyOf(collection[j]) => i = j

\* a returning call reports the number of keys it created, creates exactly the
\* keys of its batch that were missing, and leaves under each key of the batch
\* the fields of the last record of that key
C3_CountStep ==
    Returned =>
      /\ lastInserted' = Cardinality(Keys(collection') \ Keys(collection))
      /\ Keys(collection') = Keys(collection) \cup BatchKeys(lastBatch')
      /\ \A k \in BatchKeys(lastBatch') : \A j \in DOMAIN collection' :
            KeyOf(collection'[j]) = k =>
              LET last == lastBatch'[LastWith(lastBatch', k)]
              IN  \A f \in DOMAIN last \ {"created_at"} : collection'[j][f] = last[f]

\* C3: the store holds at most one document per upsert key, and each call
\* returns the number of keys that did not exist before it, a key that occurs
\* several times in the batch being counted once with its last record stored.
C3_OneKeyOneDocument == []OneDocumentPerKey /\ [][C3_CountStep]_vars

\* C3 witness: one batch carried two different records of the same new key
C3_Witness ==
    /\ calls = 1 /\ lastOutcome = "returned" /\ lastInserted = 1
    /\ \E i, j \in DOMAIN lastBatch :
          /\ i < j /\ lastBatch[i] # lastBatch[j]
          /\ RecordKey(lastBatch[i]) = RecordKey(lastBatch[j])
    /\ Len(collection) = 1 /\ "summary" \in DOMAIN collection[1]
    /\ "text_full" \in DOMAIN collection[1]

----------------------------------------------------------------------------
(* Properties of the validation layer *)

Built == docPc = "built"

\* the record carries a non-empty value under the key
Has(f) == f \in DOMAIN docRecord /\ docRecord[f] # EmptyOf(f)

\* the original wording of C9: hash, else source_url, and a failure when the
\* record has neither
C9_HashThenUrlOnly ==
    Built =>
      /\ (~Has("hash") /\ ~Has("source_url")) => ~docResult.ok
      /\ docResult.ok =>
            docResult.data["source_id"] =
                IF Has("hash") THEN docRecord["hash"] ELSE docRecord["source_url"]

\* C9 (amended): the source_id of a validated document is the record's own
\* non-empty source_id when it carries one, otherwise its non-empty hash,
\* otherwise its source_url; the construction fails with a ValidationError
\* when the record has none of the three; the upsert key is exactly the pair
\* (kind, source_id) of the document.
C9_SourceIdDerivation ==
    Built =>
      /\ (~Has("source_id") /\ ~Has("hash") /\ ~Has("source_url"))
            => (~docResult.ok /\ docResult.error = "ValidationError")
      /\ docResult.ok =>
            /\ docResult.data["source_id"] =
                  IF Has("source_id") THEN docRecord["source_id"]
                  ELSE IF Has("hash") THEN docRecord["hash"]
                  ELSE docRecord["source_url"]
            /\ DOMAIN upsert_filter(docResult) = {"kind", "source_id"}
            /\ upsert_filter(docResult)["kind"] = docResult.data["kind"]
            /\ upsert_filter(docResult)["source_id"] = docResult.data["source_id"]

\* C9 witness: a record with its own source_id, a hash and a source_url was
\* built, and the document took the record's source_id
C9_Witness ==
    /\ Built /\ docResult.ok
    /\ Has("source_id") /\ Has("hash") /\ Has("source_url")
    /\ docResult.data["source_id"] = docRecord["source_id"]
    /\ docResult.data["source_id"] # docRecord["hash"]

\* the class that builds the record, "" when build_document finds none
BuildingClass ==
    IF docClass # "" THEN docClass
    ELSE IF Has("kind") /\ docRecord["kind"] \in Kinds
         THEN DOCUMENT_REGISTRY[docRecord["kind"]] ELSE ""

BodyKinds == {"poem_page", "pdf_poems", "news"}

\* C10: building fails with a ValidationError when the title is missing or
\* empty; for poem_page, pdf_poems and news it also fails when text_full and
\* summary are both empty and succeeds when either is non-empty; for poem,
\* book, novel and play a record with a title and a derivable source_id is
\* accepted without a body.
C10_RequiredContent ==
    (Built /\ BuildingClass # "" /\ ("kind" \in DOMAIN docRecord => Has("kind"))) =>
      LET kind      == ClassKind(BuildingClass)
          derivable == Has("source_id") \/ Has("hash") \/ Has("source_url")
          body      == Has("text_full") \/ Has("summary")
      IN  /\ ~Has("title") => (~docResult.ok /\ docResult.error = "ValidationError")
          /\ (kind \in BodyKinds /\ ~body)
                => (~docResult.ok /\ docResult.error = "ValidationError")
          /\ (kind \in BodyKinds /\ body /\ Has("title") /\ derivable) => docResult.ok
          /\ (kind \notin BodyKinds /\ Has("title") /\ derivable) => docResult.ok

\* C10 witness: a news record with title and hash but an empty text_full and
\* an empty summary was rejected
C10_Witness ==
    /\ Built /\ ~docResult.ok /\ docClass = ""
    /\ Has("kind") /\ docRecord["kind"] = "news" /\ Has("title") /\ Has("hash")
    /\ "text_full" \in DOMAIN docRecord /\ "summary" \in DOMAIN docRecord
    /\ ~Has("text_full") /\ ~Has("summary")

----------------------------------------------------------------------------
(* Properties of the dedupe stage *)

Hashed(record) == Get(record, "hash") # ""

\* positions of the batch that are not a repetition of an earlier hash
KeptPositions(records) ==
    {i \in 1..Len(records) :
        \/ ~Hashed(records[i])
        \/ \A j \in 1..(i - 1) : Get(records[j], "hash") # Get(records[i], "hash")}

\* the k-th smallest element of a set of positions
Nth(S, k) == CHOOSE i \in S : Cardinality({j \in S : j <= i}) = k

\* C4: dedupe_records returns the input with exactly those records removed
\* whose non-empty hash equals the hash of an earlier record of the batch: no
\* two hashed records of the output share a hash, the first occurrence of each
\* hash is kept, the output is a subsequence of the input order, and every
\* record without a hash is kept.
C4_DedupeKeepsFirst ==
    dedupPc = "done" =>
        LET kept == KeptPositions(dedupInput)
        IN  /\ Len(dedupOutput) = Cardinality(kept)
            /\ \A k \in 1..Len(dedupOutput) : dedupOutput[k] = dedupInput[Nth(kept, k)]
            /\ \A a, b \in 1..Len(dedupOutput) :
                    (a # b /\ Hashed(dedupOutput[a])) =>
                        Get(dedupOutput[a], "hash") # Get(dedupOutput[b], "hash")
            /\ Cardinality({k \in 1..Len(dedupOutput) : ~Hashed(dedupOutput[k])})
                 = Cardinality({i \in 1..Len(dedupInput) : ~Hashed(dedupInput[i])})

\* C4 witness: a batch of two equal records without a hash between two
\* different records with the same hash was deduplicated
C4_Witness ==
    /\ dedupPc = "done"
    /\ Len(dedupInput) = MaxDedup
    /\ Hashed(dedupInput[1])
    /\ Get(dedupInput[MaxDedup], "hash") = Get(dedupInput[1], "hash")
    /\ dedupInput[MaxDedup] # dedupInput[1]
    /\ ~Hashed(dedupInput[2])
    /\ dedupOutput = SubSeq(dedupInput, 1, MaxDedup - 1)

\* C4 witness of the hash-less case: the same record without a hash, given
\* twice, is returned twice
C4_HashlessWitness ==
    /\ dedupPc = "done"
    /\ Len(dedupInput) >= 2
    /\ ~Hashed(dedupInput[1])
    /\ dedupInput[2] = dedupInput[1]
    /\ dedupOutput = dedupInput

----------------------------------------------------------------------------
(* Properties of the crawler registry *)

\* positions of the registrations of a kind made under one of the given names
RegisteredFor(log, kind, names) ==
    {i \in 1..Len(log) : log[i].kind = kind /\ log[i].source_name \in names}

Latest(S) == CHOOSE i \in S : \A j \in S : j <= i

\* the latest registration under the exact names, else the latest under the
\* default names, else a KeyError
ExpectedResolve(log, kind, exactNames, defaultNames) ==
    IF RegisteredFor(log, kind, exactNames) # {}
    THEN log[Latest(RegisteredFor(log, kind, exactNames))].crawler_cls
    ELSE IF RegisteredFor(log, kind, defaultNames) # {}
    THEN log[Latest(RegisteredFor(log, kind, defaultNames))].crawler_cls
    ELSE "KeyError"

\* the registrations made before the latest resolve_crawler returned
LogAtResolve == SubSeq(registrations, 1, lastResolve.at)

Resolved == lastResolve.result # "none"

\* no source name given
NoName == {None, ""}

\* what resolve_crawler would return in the current state
WouldResolve(registry, done, imported, kind, source_name) ==
    Lookup(Discovered(registry, done, imported), kind, source_name)

\* the step is a register_crawler call
Registers == Len(registrations') = Len(registrations) + 1

NewRegistration == registrations'[Len(registrations')]

\* names as written: the pair asked for is the pair registered
ExactPairInv ==
    Resolved =>
        lastResolve.result =
            ExpectedResolve(LogAtResolve, lastResolve.kind,
                            IF lastResolve.source_name \in NoName THEN NoName
                            ELSE {lastResolve.source_name},
                            NoName)

ExactPairFrame ==
    (Registers /\ NewRegistration.source_name \notin NoName) =>
        \A source_name \in SourceNames \ {NewRegistration.source_name} :
            WouldResolve(CRAWLER_REGISTRY', _DISCOVERY_DONE', crawlersImported',
                         NewRegistration.kind, source_name)
              = WouldResolve(CRAWLER_REGISTRY, _DISCOVERY_DONE, crawlersImported,
                             NewRegistration.kind, source_name)

\* C5 as stated: resolve_crawler returns the implementation registered for the
\* exact (kind, source_name) pair when there is one, otherwise the default
\* registered for (kind, no source name), otherwise raises KeyError; and a
\* registration under a source name never changes what other source names of
\* that kind resolve to.
C5_ExactPairLookup == []ExactPairInv /\ [][ExactPairFrame]_vars

\* two source names are the same name once blanks around them and case are ignored
SameName(a, b) == _normalize_source(a) = _normalize_source(b)

NamesLike(source_name) == {n \in SourceNames : SameName(n, source_name)}

NormalizedPairInv ==
    Resolved =>
        lastResolve.result =
            ExpectedResolve(LogAtResolve, lastResolve.kind,
                            NamesLike(lastResolve.source_name), NamesLike(None))

NormalizedPairFrame ==
    (Registers /\ ~SameName(NewRegistration.source_name, None)) =>
        \A source_name \in SourceNames :
            ~SameName(source_name, NewRegistration.source_name) =>
                WouldResolve(CRAWLER_REGISTRY', _DISCOVERY_DONE', crawlersImported',
                             NewRegistration.kind, source_name)
                  = WouldResolve(CRAWLER_REGISTRY, _DISCOVERY_DONE, crawlersImported,
                                 NewRegistration.kind, source_name)

\* C5 amended: source names are compared after stripping surrounding blanks
\* and lower-casing, and a name that is empty after that is no source name.
\* resolve_crawler returns the implementation last registered for the kind
\* under the same normalized name when there is one, otherwise the default
\* last registered for the kind under no source name, otherwise raises
\* KeyError; a registration under a non-empty normalized name never changes
\* what names with a different normalized form resolve to.
C5_NormalizedPairLookup == []NormalizedPairInv /\ [][NormalizedPairFrame]_vars

\* C5 witness: a crawler registered for "Site" was resolved for " site ",
\* while the discovered default of the kind was registered too
C5_Witness ==
    /\ Resolved
    /\ lastResolve.kind = "news" /\ lastResolve.source_name = " site "
    /\ lastResolve.result \in CustomCrawlers
    /\ RegisteredFor(LogAtResolve, "news", {"Site"}) # {}
    /\ RegisteredFor(LogAtResolve, "news", {" site "}) = {}
    /\ RegisteredFor(LogAtResolve, "news", {None}) # {}

----------------------------------------------------------------------------
(* Properties of payload finalization *)

\* the field is in both dicts with one value, or in neither
SameField(record, payload, f) ==
    /\ f \in DOMAIN record <=> f \in DOMAIN payload
    /\ f \in DOMAIN record => payload[f] = record[f]

\* text is the first n characters of full, or all of it when it is shorter
IsExcerpt(text, full, n) ==
    /\ Len(text) = (IF Len(full) <= n THEN Len(full) ELSE n)
    /\ \A k \in 1..Len(text) : text[k] = full[k]

\* what extract may return for a parsed record
PayloadOf(record, payload) ==
    /\ \A f \in DOMAIN record \ TextFields :
           f \in DOMAIN payload /\ payload[f] = record[f]
    /\ IF crawler.safe_mode
       THEN /\ "text_full" \in DOMAIN payload => payload["text_full"] = << >>
            /\ IF "text_full" \in DOMAIN record /\ record["text_full"] # << >>
               THEN /\ "text_full" \in DOMAIN payload
                    /\ "summary" \in DOMAIN payload
                    /\ IsExcerpt(payload["summary"], record["text_full"], ExcerptLength)
               ELSE /\ SameField(record, payload, "text_full")
                    /\ SameField(record, payload, "summary")
       ELSE /\ SameField(record, payload, "text_full")
            /\ SameField(record, payload, "summary")

\* C6: with safe mode enabled every payload returned by extract, of the PDF
\* crawler as of every other crawler, has an empty text_full: a record with a
\* non-empty text_full gets its first 250 characters as summary and text_full
\* cleared, a record without text_full is left as it is; with safe mode
\* disabled text_full and summary are returned as parsed.
C6_SafeModeRedaction ==
    exOutcome = "returned" =>
        /\ \A i \in DOMAIN exPayloads :
               \E j \in DOMAIN exPage : PayloadOf(exPage[j], exPayloads[i])
        /\ crawler.cls # "PdfPoemsCrawler" =>
               /\ Len(exPayloads) = Len(exPage)
               /\ \A i \in DOMAIN exPayloads : PayloadOf(exPage[i], exPayloads[i])

\* C6 witness: the PDF crawler in safe mode returned the payload of a poem
\* whose text was one character longer than the excerpt
C6_Witness ==
    /\ exOutcome = "returned"
    /\ crawler.cls = "PdfPoemsCrawler" /\ crawler.safe_mode
    /\ Len(exPage) = 1 /\ Len(exPayloads) = 1
    /\ Len(Get(exPage[1], "text_full")) = ExcerptLength + 1
    /\ exPayloads[1]["text_full"] = << >>
    /\ Len(exPayloads[1]["summary"]) = ExcerptLength

----------------------------------------------------------------------------
(* Properties of safe-mode resolution *)

\* the values of SAFE_MODE that switch safe mode on
EnvOn == {"1", "true", "TRUE", "Yes", "on"}

\* C7: the effective safe mode follows a fixed precedence: the SAFE_MODE
\* environment value when it is present, whatever the source and the pipeline
\* say; otherwise the pipeline override when given; otherwise the source's
\* own safe_mode; and the configuration default when the source sets none.
C7_SafeModePrecedence ==
    smPc = "resolved" =>
        smResult = (IF smEnv # None THEN smEnv \in EnvOn
                    ELSE IF smPipeline # None THEN smPipeline = "True"
                    ELSE IF "safe_mode" \in DOMAIN smSource
                         THEN smSource["safe_mode"] = "True"
                    ELSE smConfig = "True")

\* C7 witness: the environment switched safe mode off although the pipeline,
\* the source and the configuration default all switch it on
C7_Witness ==
    /\ smPc = "resolved"
    /\ smEnv = "0" /\ smPipeline = "True" /\ smConfig = "True"
    /\ "safe_mode" \in DOMAIN smSource /\ smSource["safe_mode"] = "True"
    /\ smResult = FALSE

----------------------------------------------------------------------------
(* Properties of fetch *)

\* the calls, sleeps and outcome of fetch so far
FetchInv ==
    /\ httpCalls <= fetchConfig.max_retries
    /\ \A k \in 1..Len(sleeps) :
           sleeps[k] = fetchConfig.backoff_base * Pow(fetchConfig.backoff_factor, k - 1)
    /\ fetchPc = "loop" => Len(sleeps) = httpCalls
    /\ fetchPc = "returned" =>
           /\ fetchOutcome = httpCalls
           /\ Len(sleeps) = httpCalls - 1
    /\ (fetchPc = "raised" /\ fetchConfig.max_retries > 0) =>
           /\ httpCalls = fetchConfig.max_retries
           /\ fetchOutcome = httpCalls
           /\ Len(sleeps) = fetchConfig.max_retries - 1

\* once fetch has returned or raised, no call and no sleep follows
NoFurtherAttempts ==
    fetchPc \in {"returned", "raised"} => UNCHANGED <<httpCalls, sleeps, fetchPc>>

\* C8: fetch calls the HTTP helper at most max_retries times; it returns the
\* first successful response without further attempts; after the k-th failed
\* attempt it waits backoff_base * backoff_factor^(k-1) only when another
\* attempt follows; after max_retries failed attempts it raises the last
\* error without sleeping.
C8_FetchRetries == []FetchInv /\ [][NoFurtherAttempts]_vars

\* C8 witness: with the default backoff every one of the max_retries calls
\* failed, and fetch raised the error of the last call
C8_Witness ==
    /\ fetchPc = "raised"
    /\ fetchConfig.max_retries = MaxRetries
    /\ fetchConfig.backoff_base = 1 /\ fetchConfig.backoff_factor = 2
    /\ httpCalls = MaxRetries
    /\ Len(sleeps) = MaxRetries - 1
    /\ sleeps[2] = 2
    /\ fetchOutcome = MaxRetries

----------------------------------------------------------------------------
(* The store stage on batches that hold a record failing validation *)

\* records handed to store_records: a poem page with a body, a list entry
\* of another kind, and a news record without a title, which fails validation
MixedRecords ==
    { MkRecord("poem_page", "T1", "h1", NoStr, NoStr, <<1>>, NoText, NoTime),
      MkRecord("poem", "T1", "h1", NoStr, NoStr, NoText, NoText, NoTime),
      MkRecord("news", NoStr, "h2", NoStr, NoStr, <<1>>, NoText, NoTime) }

MixedBatches == SeqsUpTo(MixedRecords, MaxBatch)

StoreMixedCall == \E records \in MixedBatches : store_records(records)

NextMixed == StoreMixedCall /\ UNCHANGED ExceptStore
SpecMixed == Init /\ [][NextMixed]_vars

\* the record passes the validation layer
PassesValidation(record) == build_document(record, clock, clock).ok

\* C11 as stated: when a batch passed to the store stage holds a record that
\* fails validation, only that record is rejected, and every other record of
\* the batch that passes validation is upserted into the store.
C11_OnlyInvalidRejected ==
    calls > 0 =>
        \A i \in DOMAIN lastBatch :
            PassesValidation(lastBatch[i]) => RecordKey(lastBatch[i]) \in Keys(collection)

\* what store_records does with such a batch: it raises, and writes nothing
C11_WholeBatchRejected ==
    (calls' = calls + 1 /\ \E i \in DOMAIN lastBatch' : ~PassesValidation(lastBatch'[i]))
      => lastOutcome' = "ValidationError" /\ collection' = collection

C11_BatchRejected == [][C11_WholeBatchRejected]_vars

\* a batch of a valid and an invalid record was handed over, and the store is empty
C11_Witness ==
    /\ calls = 1 /\ lastOutcome = "ValidationError"
    /\ Len(lastBatch) = MaxBatch
    /\ PassesValidation(lastBatch[1])
    /\ collection = << >>

----------------------------------------------------------------------------
(* Properties of a write to an existing key *)

\* the validated document that a call writes for a record at clock reading t
WrittenDocument(record, t) == to_mongo(build_document(record, t, t), t)

\* the keys that existed before the call and that its batch writes exactly once
RewrittenOnce ==
    {k \in Keys(collection) \cap BatchKeys(lastBatch') :
        Cardinality({i \in DOMAIN lastBatch' : RecordKey(lastBatch'[i]) = k}) = 1}

StoredUnder(coll, k) == coll[CHOOSE j \in DOMAIN coll : KeyOf(coll[j]) = k]

EqualsLatestStep ==
    Returned =>
        \A k \in RewrittenOnce :
            LET written == WrittenDocument(lastBatch'[LastWith(lastBatch', k)], clock')
                stored  == StoredUnder(collection', k)
            IN  /\ DOMAIN stored \ {"created_at"} = DOMAIN written \ {"created_at"}
                /\ \A f \in DOMAIN written \ {"created_at"} : stored[f] = written[f]

\* C20 as stated: after a write to a key that already exists, every field of
\* the stored document other than created_at has the value of the newly
\* written document: the stored document equals the latest written document
\* except for created_at.
C20_StoredEqualsLatest == [][EqualsLatestStep]_vars

MergesLatestStep ==
    Returned =>
        \A k \in RewrittenOnce :
            LET written == WrittenDocument(lastBatch'[LastWith(lastBatch', k)], clock')
                before  == StoredUnder(collection, k)
                stored  == StoredUnder(collection', k)
            IN  /\ DOMAIN stored = DOMAIN before \cup DOMAIN written
                /\ \A f \in DOMAIN written \ {"created_at"} : stored[f] = written[f]
                /\ \A f \in DOMAIN before \ DOMAIN written : stored[f] = before[f]
                /\ stored["created_at"] = before["created_at"]

\* C20 amended: after a write to a key that already exists, every field that
\* the newly written document carries, other than created_at, has the value
\* of that document; a field that the newly written document does not carry
\* keeps the value it had in the store; created_at is unchanged.
C20_StoredMergesLatest == [][MergesLatestStep]_vars

\* C20 witness: a record with a summary and no text_full was written to a key
\* stored with a text_full, and the stored document has both
C20_Witness ==
    /\ calls >= 2 /\ lastOutcome = "returned" /\ lastInserted = 0
    /\ Len(lastBatch) = 1
    /\ "summary" \in DOMAIN lastBatch[1] /\ "text_full" \notin DOMAIN lastBatch[1]
    /\ Len(collection) = 1
    /\ KeyOf(collection[1]) = RecordKey(lastBatch[1])
    /\ "text_full" \in DOMAIN collection[1]
    /\ collection[1]["summary"] = lastBatch[1]["summary"]

----------------------------------------------------------------------------
(* Properties of a crawl run *)

\* the source is enabled, has a kind, and a crawler is registered for the kind
Crawlable(source) ==
    /\ Enabled(source)
    /\ Get(source, "kind") # ""
    /\ Lookup(DefaultRegistry, Get(source, "kind"), SourceName(source)) # "KeyError"

\* the extract calls due for the sources from position i on: every link of
\* every crawlable source, source by source, link by link
RECURSIVE RunPlan(_, _)
RunPlan(sources, i) ==
    IF i > Len(sources) THEN << >>
    ELSE (IF Crawlable(sources[i])
          THEN [k \in 1..Len(LinksFor(sources[i])) |->
                   [name |-> SourceName(sources[i]), link |-> LinksFor(sources[i])[k]]]
          ELSE << >>) \o RunPlan(sources, i + 1)

\* the extract calls made so far, without their outcome
Extracted == [k \in 1..Len(extractLog) |->
                 [name |-> extractLog[k].name, link |-> extractLog[k].link]]

\* the payloads of the extract calls that returned, in order
Collected ==
    LET returned == SelectSeq(extractLog, LAMBDA x : x.ok)
    IN  [k \in 1..Len(returned) |->
            [source_name |-> returned[k].name, source_url |-> returned[k].link]]

IsPrefix(s, t) == Len(s) <= Len(t) /\ SubSeq(t, 1, Len(s)) = s

\* whatever failed, the run made every due extract call in order, kept every
\* payload, and reported every source
RunCompleteInv ==
    /\ runDocuments = Collected
    /\ IsPrefix(Extracted, RunPlan(runSources, 1))
    /\ runPc = "done" =>
          /\ Extracted = RunPlan(runSources, 1)
          /\ Len(runSummary) = Len(runSources)

\* C12: when extracting one link raises, the run is not aborted: the
\* documents collected from earlier links are kept, every later link of the
\* same source is still extracted in order, and every later source is still
\* processed.
C12_LinkFailureIsolated ==
    []RunCompleteInv /\ [][IsPrefix(runDocuments, runDocuments')]_vars

\* C12 witness: the first link of a source failed, its second link and the
\* link of the next source were extracted, and the run returned both payloads
C12_Witness ==
    /\ runPc = "done"
    /\ Len(extractLog) = 3
    /\ ~extractLog[1].ok /\ extractLog[2].ok /\ extractLog[3].ok
    /\ extractLog[1].name = extractLog[2].name
    /\ extractLog[3].name # extractLog[1].name
    /\ Len(runDocuments) = 2

\* the run is over
RunOver == runPc \in {"done", "KeyError"}

\* the source is one the run asked for
Requested(source) == runRequested = {} \/ Get(source, "name") \in runRequested

\* every link of the source was extracted
Crawled(source) ==
    \A k \in DOMAIN LinksFor(source) :
        \E x \in DOMAIN extractLog :
            /\ extractLog[x].name = SourceName(source)
            /\ extractLog[x].link = LinksFor(source)[k]

\* one of the configuration errors of the run: a requested name that is not
\* configured, a requested source without kind or without registered crawler
ConfigurationError ==
    \/ runRequested \ NamesOf(runConfig) # {}
    \/ \E i \in DOMAIN runConfig :
          /\ Requested(runConfig[i]) /\ Enabled(runConfig[i])
          /\ ~Crawlable(runConfig[i])

\* C13 as stated: a configuration error of one source (a requested name that
\* is not configured, a source without kind, a kind with no registered
\* crawler) affects only that source: all other requested sources of the run
\* are still crawled and their documents returned.
C13_ConfigErrorIsolated ==
    (RunOver /\ ConfigurationError) =>
        /\ runPc = "done"
        /\ \A i \in DOMAIN runConfig :
              (Requested(runConfig[i]) /\ Crawlable(runConfig[i])) => Crawled(runConfig[i])

\* the run asked for a configured, crawlable source and for a name that is
\* not configured, and ended with KeyError before any extract call
C13_Witness ==
    /\ runPc = "KeyError"
    /\ \E i \in DOMAIN runConfig : Requested(runConfig[i]) /\ Crawlable(runConfig[i])
    /\ runRequested \ NamesOf(runConfig) = {"missing"}
    /\ extractLog = << >>

\* a source without kind or without registered crawler does not stop the run
C13_KindErrorsIsolated ==
    (RunOver /\ runRequested \ NamesOf(runConfig) = {}) =>
        /\ runPc = "done"
        /\ \A i \in DOMAIN runConfig :
              (Requested(runConfig[i]) /\ Crawlable(runConfig[i])) => Crawled(runConfig[i])

----------------------------------------------------------------------------
(* Properties of PDF segmentation *)

\* the detected title lines of the stream, and the extent of the i-th work
DetectedTitles == _detect_title_indices(pdfLines)

TitleBlockOf(i) == _collect_title_block(pdfLines, DetectedTitles[i])

BodyEnd(i) ==
    IF i < Len(DetectedTitles) THEN DetectedTitles[i + 1] - 1 ELSE Len(pdfLines)

NonBlankBody(i) ==
    {pos \in TitleBlockOf(i).current..BodyEnd(i) : pdfLines[pos] # ""}

\* the lines from the end of the title block to the line before the next
\* title, without the blank lines at both ends
BodyOf(i) ==
    LET first == CHOOSE pos \in NonBlankBody(i) : \A q \in NonBlankBody(i) : pos <= q
        last  == CHOOSE pos \in NonBlankBody(i) : \A q \in NonBlankBody(i) : q <= pos
    IN  SubSeq(pdfLines, first, last)

\* a text without the blank lines that directly follow a blank line
SingleBlanks(text) ==
    LET kept == {pos \in 1..Len(text) : ~(pos > 1 /\ text[pos] = "" /\ text[pos - 1] = "")}
    IN  [k \in 1..Cardinality(kept) |->
            text[CHOOSE pos \in kept : Cardinality({q \in kept : q <= pos}) = k]]

\* every detected title has a non-blank line between its title block and the
\* next title
TitlesHaveBodies ==
    /\ Len(DetectedTitles) >= 1
    /\ \A i \in 1..Len(DetectedTitles) : NonBlankBody(i) # {}

NoTokenBody ==
    \A i \in 1..Len(DetectedTitles) :
        /\ BodyOf(i) \notin {<<"siir arsivi">>, <<"SIIR ARSIVI">>}
        /\ TitleBlockOf(i).title_text # <<"SIIR ARSIVI">>

----------------------------------------------------------------------------
(* Properties of CID repair *)

\* a (cid:N) placeholder starts at position pos of the text and ends at last
PlaceholderAt(text, pos, last) ==
    /\ text[pos] = "(cid:"
    /\ last >= pos + 2
    /\ text[last] = ")"
    /\ \A m \in (pos + 1)..(last - 1) : text[m] \in Digits

HasPlaceholder(text) ==
    \E pos \in 1..Len(text) : \E last \in pos..Len(text) : PlaceholderAt(text, pos, last)

\* what position pos of the input contributes to the repaired text: the
\* table's characters at the start of a mapped placeholder, nothing at any
\* other position of a placeholder, the character itself outside placeholders
Contribution(text, pos) ==
    IF \E last \in pos..Len(text) : PlaceholderAt(text, pos, last)
    THEN LET last == CHOOSE l \in pos..Len(text) : PlaceholderAt(text, pos, l)
             code == SubSeq(text, pos + 1, last - 1)
         IN  IF code \in DOMAIN CID_REPLACEMENTS THEN CID_REPLACEMENTS[code] ELSE << >>
    ELSE IF \E first \in 1..pos : \E last \in pos..Len(text) : PlaceholderAt(text, first, last)
    THEN << >>
    ELSE <<text[pos]>>

RECURSIVE Repaired(_, _)
Repaired(text, upto) ==
    IF upto = 0 THEN << >> ELSE Repaired(text, upto - 1) \o Contribution(text, upto)

EveryOpenerMatched(text) ==
    \A pos \in 1..Len(text) :
        text[pos] = "(cid:" => \E last \in pos..Len(text) : PlaceholderAt(text, pos, last)

----------------------------------------------------------------------------
(* Properties of the PdfPoemsCrawler instances *)

HashesOf(payloads) == [k \in 1..Len(payloads) |-> payloads[k]["hash"]]

\* the hashes of poems that are neither in returned nor earlier in poems
RECURSIVE NewHashes(_, _)
NewHashes(poems, returned) ==
    IF poems = << >> THEN << >>
    ELSE LET hash == poems[Len(poems)]["hash"]
             before == SubSeq(poems, 1, Len(poems) - 1)
         IN  IF hash \in returned \/ \E k \in 1..Len(before) : before[k]["hash"] = hash
             THEN NewHashes(before, returned)
             ELSE Append(NewHashes(before, returned), hash)

NoHashTwice ==
    \A self \in PdfInstanceIds :
        \A j, k \in 1..Len(pdfReturned[self]) :
            pdfReturned[self][j]["hash"] = pdfReturned[self][k]["hash"] => j = k

\* a call returns the works whose hash its own instance has not returned
\* before, whatever the other instance returned, and touches no other instance
OwnHashesOnly ==
    \A self \in PdfInstanceIds :
        pdfLast'.instance = self =>
            /\ \A other \in PdfInstanceIds \ {self} :
                   /\ pdfReturned'[other] = pdfReturned[other]
                   /\ pdfInstances'[other] = pdfInstances[other]
            /\ HashesOf(pdfReturned'[self]) =
                   HashesOf(pdfReturned[self]) \o
                   (IF pdfLast'.fetched /\ pdfLast'.link # ""
                    THEN NewHashes(pdfLast'.poems,
                                   {pdfReturned[self][k]["hash"] : k \in 1..Len(pdfReturned[self])})
                    ELSE << >>)

\* C16: the payloads one instance returned, within a call and across calls,
\* carry pairwise different hashes; a call skips exactly the works whose hash
\* its own instance returned before and is not affected by the other instance.
C16_SeenHashesPerInstance == []NoHashTwice /\ [][OwnHashesOnly]_vars

\* instance 1 has skipped the second of two works with one hash and returned
\* the first, after instance 2 returned a work with that hash
C16_Witness ==
    /\ pdfLast.instance = 1
    /\ Len(pdfLast.poems) = 2
    /\ pdfLast.poems[1]["hash"] = pdfLast.poems[2]["hash"]
    /\ Len(pdfReturned[1]) = 1
    /\ Len(pdfReturned[2]) = 1
    /\ pdfReturned[1][1]["hash"] = pdfReturned[2][1]["hash"]

----------------------------------------------------------------------------
(* Properties of the content hash *)

C17_SameTripleWitness ==
    /\ Len(hashLog) = 2
    /\ hashLog[1].triple = hashLog[2].triple
    /\ hashLog[1].triple.text_full # << >>

----------------------------------------------------------------------------
(* Properties of crawler discovery *)

DefaultKinds == {"poem_page", "pdf_poems", "poem", "book", "novel", "play", "news"}

\* once discovery completed there is a default for each of the seven kinds,
\* available_crawlers returned one for each, and discovery ran once
DiscoveryInv ==
    /\ discoveryRuns <= 1
    /\ _DISCOVERY_DONE =>
           /\ discoveryRuns = 1
           /\ \A kind \in DefaultKinds : <<kind, None>> \in DOMAIN CRAWLER_REGISTRY
    /\ lastAvailable.called =>
           /\ _DISCOVERY_DONE
           /\ DefaultKinds \subseteq DOMAIN lastAvailable.defaults

\* after discovery completed, a resolve_crawler or available_crawlers call
\* (any step that is not a registration) leaves the registry as it is and
\* does not run discovery again
DiscoveryFrame ==
    (_DISCOVERY_DONE /\ ~Registers) =>
        /\ CRAWLER_REGISTRY' = CRAWLER_REGISTRY
        /\ registrations' = registrations
        /\ discoveryRuns' = discoveryRuns
        /\ _DISCOVERY_DONE'

\* C18: discovery runs at most once; the first resolve_crawler or
\* available_crawlers call leaves a default crawler registered for each of the
\* seven kinds, and every later call leaves the registry unchanged and does
\* not run discovery again.
C18_DiscoveryOnce == []DiscoveryInv /\ [][DiscoveryFrame]_vars

\* available_crawlers ran discovery and returned the seven defaults, a crawler
\* was registered afterwards, and a later resolve_crawler call found the
\* registry with that one registration more
C18_Witness ==
    /\ _DISCOVERY_DONE
    /\ discoveryRuns = 1
    /\ lastAvailable.called
    /\ DOMAIN lastAvailable.defaults = DefaultKinds
    /\ Resolved
    /\ lastResolve.at = Len(DiscoveryLog) + 1
    /\ registrations[lastResolve.at].crawler_cls \in CustomCrawlers

----------------------------------------------------------------------------
(* Properties of the static list crawler *)

\* the items with a text that is not only blanks
RECURSIVE NonEmptyItems(_)
NonEmptyItems(items) ==
    IF items = << >> THEN << >>
    ELSE IF \A k \in 1..Len(items[1]) : items[1][k] \in Whitespace
    THEN NonEmptyItems(Tail(items))
    ELSE <<items[1]>> \o NonEmptyItems(Tail(items))

\* a run of exactly four digits starts at pos
FourDigitToken(text, pos) ==
    /\ FourDigits(text, pos)
    /\ pos = 1 \/ text[pos - 1] \notin DecimalDigits
    /\ pos + 4 > Len(text) \/ text[pos + 4] \notin DecimalDigits

\* a four-digit token between 1800 and 2099 starts at pos
YearToken(text, pos) ==
    /\ FourDigitToken(text, pos)
    /\ int(SubSeq(text, pos, pos + 3)) \in 1800..2099

\* the first four-digit token between 1800 and 2099 of the text, else no year
FirstYearToken(text) ==
    LET start == FirstMatch({pos \in 1..Len(text) : YearToken(text, pos)})
    IN  IF start = 0 THEN NoYear ELSE int(SubSeq(text, start, start + 3))

\* the first match of the configured regex, else the fallback year
YearBy(year_regex, text, fallback) ==
    LET start == FirstMatch({pos \in 1..Len(text) : FourDigits(text, pos)})
    IN  IF year_regex # None /\ start # 0 THEN int(SubSeq(text, start, start + 3))
        ELSE fallback

Parsed == listPc = "done" /\ listExtract.section_css # None

\* C19 as stated: one record per list item with non-empty text; its year is
\* the first match of the configured regex, otherwise the first four-digit
\* token between 1800 and 2099 of the item text, otherwise null.
C19_YearIsFirstToken ==
    Parsed =>
        /\ Len(listDocuments) = Len(NonEmptyItems(listItems))
        /\ \A k \in 1..Len(listDocuments) :
               listDocuments[k].year =
                   YearBy(listExtract.year_regex, listDocuments[k].title,
                          FirstYearToken(listDocuments[k].title))

\* the items whose text is neither blank nor the site token
RECURSIVE TitledItems(_)
TitledItems(items) ==
    IF items = << >> THEN << >>
    ELSE IF CleanItem(items[1]) = << >> THEN TitledItems(Tail(items))
    ELSE <<items[1]>> \o TitledItems(Tail(items))

\* the first four digits in a row that start with 18, 19 or 20, wherever
\* they stand, else no year
FirstYearDigits(text) ==
    LET starts == {pos \in 1..(Len(text) - 3) :
                      /\ \A k \in pos..(pos + 3) : text[k] \in DecimalDigits
                      /\ int(SubSeq(text, pos, pos + 3)) \in 1800..2099}
    IN  IF starts = {} THEN NoYear
        ELSE int(SubSeq(text, CHOOSE pos \in starts : \A q \in starts : pos <= q,
                        (CHOOSE pos \in starts : \A q \in starts : pos <= q) + 3))

\* what the list crawler does: one record per item whose cleaned text is not
\* empty, in order; its year is the first match of the configured regex,
\* otherwise the first four digits in a row between 1800 and 2099, also
\* inside a longer number, otherwise null
C19_YearIsFirstDigits ==
    Parsed =>
        /\ Len(listDocuments) = Len(TitledItems(listItems))
        /\ \A k \in 1..Len(listDocuments) :
               /\ listDocuments[k].title = CleanItem(TitledItems(listItems)[k])
               /\ listDocuments[k].year =
                      YearBy(listExtract.year_regex, listDocuments[k].title,
                             FirstYearDigits(listDocuments[k].title))

\* a page with a five-digit number in an item and no configured regex has
\* been parsed into a record with a year
C19_Witness ==
    /\ Parsed
    /\ listExtract.year_regex = None
    /\ Len(listDocuments) = 1
    /\ listDocuments[1].title = <<"a", " ", "2", "0", "0", "0", "0">>
    /\ listDocuments[1].year = 2000

----------------------------------------------------------------------------
(* Properties of the PDF download *)

\* the session.get calls made on the requested URL, and on its HTTP form as
\* the fallback
OnRequested == SelectSeq(fbLog, LAMBDA call : call.url = fbUrl)

OnFallback == SelectSeq(fbLog, LAMBDA call : call.url # fbUrl)

FetchBytesInv ==
    /\ Len(OnRequested) <= Retries(fbConfig)
    /\ Len(OnFallback) <= Retries(fbConfig)
    /\ fbLog = OnRequested \o OnFallback
    /\ \A k \in 1..Len(fbLog) : fbLog[k].ok => k = Len(fbLog)
    /\ OnFallback # << >> =>
           /\ StartsWithHttps(fbUrl)
           /\ fbConfig.allow_http_fallback
           /\ Len(OnRequested) = Retries(fbConfig)
           /\ \A k \in 1..Len(OnRequested) : ~OnRequested[k].ok
           /\ \A k \in 1..Len(OnFallback) : OnFallback[k].url = "http://h/p"
    /\ fbOutcome.kind = "returned" =>
           /\ fbLog # << >>
           /\ fbLog[Len(fbLog)].ok
           /\ fbOutcome.value = fbLog[Len(fbLog)].value
    /\ fbOutcome.kind = "raised" =>
           /\ fbLog # << >>
           /\ \A k \in 1..Len(fbLog) : ~fbLog[k].ok
           /\ fbOutcome.value = fbLog[Len(fbLog)].value
           /\ Len(OnRequested) = Retries(fbConfig)
           /\ (StartsWithHttps(fbUrl) /\ fbConfig.allow_http_fallback) =>
                  Len(OnFallback) = Retries(fbConfig)

\* a finished download makes no further request
FetchBytesStep ==
    fbOutcome.kind # "none" => (fbLog' = fbLog /\ fbOutcome' = fbOutcome)

\* C21: at most `retries` attempts go to the requested URL and the first
\* success is returned; the HTTP form is tried only after all of them failed,
\* only for an https URL of a source that allows it, once, with at most
\* `retries` attempts of its own; when every attempt failed the last error is
\* raised; a finished download makes no further attempt.
C21_FetchBytes == []FetchBytesInv /\ [][FetchBytesStep]_vars

\* the HTTPS attempts failed twice and the second attempt on the HTTP form
\* returned the body
C21_Witness ==
    /\ fbOutcome = [kind |-> "returned", value |-> "pdf1"]
    /\ Len(OnRequested) = 2
    /\ Len(OnFallback) = 2
    /\ fbUrl = "HTTPS://h/p"

\* every attempt on both forms of the URL failed and the last error was raised
C21_RaisedWitness ==
    /\ fbOutcome = [kind |-> "raised", value |-> "e2"]
    /\ Len(OnFallback) = 2
    /\ fbLog[Len(OnRequested)].value = "e1"

----------------------------------------------------------------------------
(* Properties of the index crawl *)

NoRepeat(log) == \A j, k \in 1..Len(log) : log[j] = log[k] => j = k

DetailFetchedOnce ==
    \A j, k \in 1..Len(idxDetailFetches) :
        RStripSlash(idxDetailFetches[j].url) = RStripSlash(idxDetailFetches[k].url) => j = k

\* C22 as stated: at most max_pages index pages are fetched and processed,
\* the seed page counted; no index page is processed twice; every detail URL,
\* compared without trailing slashes, is fetched at most once.
C22_PageLimit ==
    idxConfig.max_pages >= 1 =>
        /\ Len(idxPageFetches) <= idxConfig.max_pages
        /\ Len(idxProcessed) <= idxConfig.max_pages
        /\ NoRepeat(idxProcessed)
        /\ DetailFetchedOnce

\* what the index crawl keeps to: at most max_pages pages are processed and
\* at most one more is fetched, none is processed twice, and every detail
\* URL is fetched at most once
C22_ProcessedLimit ==
    /\ Len(idxProcessed) <= idxConfig.max_pages
    /\ Len(idxPageFetches) <= Len(idxProcessed) + 1
    /\ NoRepeat(idxProcessed)
    /\ DetailFetchedOnce

\* with max_pages = 1 the seed page was processed and a second index page
\* was fetched
C22_Witness ==
    /\ idxConfig.max_pages = 1
    /\ idxPc = "done"
    /\ idxProcessed = <<"http://h/p1">>
    /\ idxPageFetches = <<"http://h/p1", "http://h/p2">>
    /\ Len(idxDetailFetches) = 1

----------------------------------------------------------------------------
(* Properties of the news archive crawler *)

HasText(text) == \E k \in 1..Len(text) : text[k] \notin Whitespace \cup LineBreaks

\* the cards that have a link, in page order
LinkedCards == {k \in 1..Len(newsCards) : newsCards[k].href # None}

\* C23 as stated: no record for a card without a link, with a detail page
\* that could not be fetched, or without body text; every emitted record has
\* a text_full with a non-whitespace character; a skipped card does not stop
\* the cards after it.
C23_RecordsHaveText ==
    newsPc = "done" =>
        /\ \A j \in 1..Len(newsDocuments) :
              /\ newsDocuments[j].card \in LinkedCards
              /\ HasText(newsDocuments[j].text_full)
        /\ Len(newsFetched) = Cardinality(LinkedCards)

\* what parse keeps to: a record only for a linked card, with a text_full
\* that is not the empty string and is the joined cleaned elements of the
\* detail page; every linked card is fetched, whatever happened to the cards
\* before it
C23_RecordsHaveBody ==
    newsPc = "done" =>
        /\ \A j \in 1..Len(newsDocuments) :
              /\ newsDocuments[j].card \in LinkedCards
              /\ newsDocuments[j].text_full # << >>
              /\ newsDocuments[j].text_full
                    = _parse_body(newsCards[newsDocuments[j].card].page, newsConfig.full_css)
        /\ \A j, k \in 1..Len(newsDocuments) :
              j < k => newsDocuments[j].card < newsDocuments[k].card
        /\ Len(newsFetched) = Cardinality(LinkedCards)

\* a detail page with two blank elements under full_css gave a record whose
\* text_full is two line breaks
C23_Witness ==
    /\ newsPc = "done"
    /\ \E j \in 1..Len(newsDocuments) : newsDocuments[j].text_full = <<"LF", "LF">>

----------------------------------------------------------------------------
(* Properties of payload finalization *)

\* extract of a crawler that keeps BaseCrawler.extract has returned
BaseReturned == exOutcome = "returned" /\ crawler.cls # "PdfPoemsCrawler"

KindFinalized(record, payload) ==
    /\ "kind" \in DOMAIN payload
    /\ payload["kind"] = IF "kind" \in DOMAIN record THEN record["kind"]
                         ELSE CrawlerKind(crawler.cls)

NameFinalized(record, payload) ==
    IF "source_name" \in DOMAIN record
    THEN "source_name" \in DOMAIN payload /\ payload["source_name"] = record["source_name"]
    ELSE IF exUser # ""
    THEN "source_name" \in DOMAIN payload /\ payload["source_name"] = exUser
    ELSE "source_name" \notin DOMAIN payload

\* C24 as stated: every payload returned by BaseCrawler.extract has the
\* record's own kind, else the crawler's; the record's own source_url, else
\* the crawled link when the record's is missing or empty; the record's own
\* source_name, else the name passed as user.
C24_PayloadDefaults ==
    BaseReturned =>
        /\ Len(exPayloads) = Len(exPage)
        /\ \A i \in DOMAIN exPayloads :
              /\ KindFinalized(exPage[i], exPayloads[i])
              /\ "source_url" \in DOMAIN exPayloads[i]
              /\ exPayloads[i]["source_url"]
                    = IF Truthy(exPage[i], "source_url") THEN exPage[i]["source_url"]
                      ELSE exLink
              /\ NameFinalized(exPage[i], exPayloads[i])

\* what finalization keeps to: kind and source_name as stated; source_url is
\* the record's own whenever the record has the key, the empty string
\* included, and the crawled link only when the key is missing
C24_PayloadKeepsKeys ==
    BaseReturned =>
        /\ Len(exPayloads) = Len(exPage)
        /\ \A i \in DOMAIN exPayloads :
              /\ KindFinalized(exPage[i], exPayloads[i])
              /\ "source_url" \in DOMAIN exPayloads[i]
              /\ exPayloads[i]["source_url"]
                    = IF "source_url" \in DOMAIN exPage[i] THEN exPage[i]["source_url"]
                      ELSE exLink
              /\ NameFinalized(exPage[i], exPayloads[i])

\* a record whose source_url is the empty string was finalized for the link
\* L1 and its payload still has the empty source_url
C24_Witness ==
    /\ BaseReturned
    /\ exLink = "L1"
    /\ Len(exPage) = 1 /\ Len(exPayloads) = 1
    /\ "source_url" \in DOMAIN exPage[1] /\ exPage[1]["source_url"] = ""
    /\ exPayloads[1]["source_url"] = ""

----------------------------------------------------------------------------
(* Properties of title detection *)

Stripped(idx) == StripText(tdLines[idx])

LettersOf(text) == {k \in 1..Len(text) : IsAlpha(text[k])}

PunctuationOf(text) == {k \in 1..Len(text) : text[k] \in PunctuationMarks}

\* first line or after a blank line, 3..60 characters, a non-empty line later
TitlePlace(idx) ==
    /\ Stripped(idx) # << >>
    /\ (idx = 1 \/ Stripped(idx - 1) = << >>)
    /\ 3 <= Len(Stripped(idx)) /\ Len(Stripped(idx)) <= 60
    /\ \E pos \in (idx + 1)..Len(tdLines) : Stripped(pos) # << >>

\* at least 65% of the letters are upper case
MostlyUpper(text) ==
    /\ LettersOf(text) # {}
    /\ 100 * Cardinality({k \in LettersOf(text) : text[k] \in UpperLetters})
          >= 65 * Cardinality(LettersOf(text))

\* C25 as stated: a line is a title index exactly when it is non-empty, is
\* the first line or follows a blank line, has 3 to 60 characters, has a
\* non-empty line after it, has no more punctuation marks than one third of
\* its length, and is upper case, or has 65% of its letters upper case, or is
\* title case, or has every word starting with an upper-case letter.
C25_TitleExactlyWhen ==
    tdPc = "done" =>
        \A idx \in 1..Len(tdLines) :
            idx \in tdIndices <=>
                /\ TitlePlace(idx)
                /\ 3 * Cardinality(PunctuationOf(Stripped(idx))) <= Len(Stripped(idx))
                /\ \/ IsUpper(Stripped(idx))
                   \/ MostlyUpper(Stripped(idx))
                   \/ IsTitle(Stripped(idx))
                   \/ \A k \in WordStarts(Stripped(idx)) :
                          Stripped(idx)[k] \in UpperLetters

\* C25 (amended): a line is a title index exactly when it is non-empty, is
\* the first line or follows a blank line, has 3 to 60 characters, has a
\* non-empty line after it, has at least one letter, has at most
\* max(2, length // 3) punctuation marks, and is upper case, or has 65% of
\* its letters upper case, or is title case, or has every word that starts
\* with a letter starting with an upper-case one.
C25_TitleDetection ==
    tdPc = "done" =>
        \A idx \in 1..Len(tdLines) :
            idx \in tdIndices <=>
                /\ TitlePlace(idx)
                /\ LettersOf(Stripped(idx)) # {}
                /\ \/ Cardinality(PunctuationOf(Stripped(idx))) <= 2
                   \/ 3 * Cardinality(PunctuationOf(Stripped(idx))) <= Len(Stripped(idx))
                /\ \/ IsUpper(Stripped(idx))
                   \/ MostlyUpper(Stripped(idx))
                   \/ IsTitle(Stripped(idx))
                   \/ \A k \in WordStarts(Stripped(idx)) :
                          Stripped(idx)[k] \notin LowerLetters

\* the line "A.." with two punctuation marks in three characters was
\* reported as a title, and the line after it was not
C25_Witness ==
    /\ tdPc = "done"
    /\ Len(tdLines) = 2
    /\ tdLines[1] = <<"A", ".", ".">>
    /\ tdIndices = {1}

----------------------------------------------------------------------------
(* Properties of the normalize stage *)

\* one normalized record per record, in order, with the same hash, kind,
\* source_url and source_id, and so the same upsert key
NormalizeKeepsKeys ==
    nzPc = "done" =>
        /\ Len(nzNormalized) = Len(nzRecords)
        /\ \A i \in 1..Len(nzRecords) :
              /\ \A f \in {"hash", "kind", "source_url", "source_id"} :
                    SameField(nzRecords[i], nzNormalized[i], f)
              /\ RecordKey(nzNormalized[i]) = RecordKey(nzRecords[i])
              /\ nzNormalized[i]["title"] = CleanTitle(Get(nzRecords[i], "title"))

\* C26: normalize_records never changes the records passed in, returns one
\* record per input record in the same order, and leaves hash, kind and
\* source_url of each record as they were, so the upsert key of a record is
\* the same before and after normalization.
C26_NormalizeFrame == []NormalizeKeepsKeys /\ [][nzRecords' = nzRecords]_vars

\* two records were normalized; the title of the first one was cleaned and
\* its hash kept
C26_Witness ==
    /\ nzPc = "done"
    /\ Len(nzRecords) = 2
    /\ Get(nzRecords[1], "title") = " T1 " /\ Get(nzRecords[1], "hash") = "h1"
    /\ nzNormalized[1]["title"] = "T1" /\ nzNormalized[1]["hash"] = "h1"

----------------------------------------------------------------------------
(* Properties of a crawler from creation to close *)

\* close() is called once, after the last link and not before
ClosedOnceAfterLinks ==
    /\ lcCloses = (IF lcPc = "closed" THEN 1 ELSE 0)
    /\ lcPc = "closed" => Len(lcLog) = lcLinks

\* C27 as stated: every crawler created for a source is closed exactly once
\* after its last link was processed, also when extraction of a link raised,
\* and after close() it holds no open resource: no live WebDriver and no open
\* HTTP session.
C27_ClosedAndReleased ==
    /\ ClosedOnceAfterLinks
    /\ lcPc = "closed" => lcCrawler._driver = None /\ lcCrawler._session # "open"

\* what the run keeps to: close() once after the last link, whatever the
\* links did, and no driver held after it; the session of a PdfPoemsCrawler
\* is as __init__ built it
C27_ClosedOnce ==
    /\ ClosedOnceAfterLinks
    /\ lcPc = "closed" =>
          /\ lcCrawler._driver = None
          /\ lcCrawler._session = NewCrawler(lcCrawler.cls)._session

\* a PdfPoemsCrawler was closed after two links, one of which raised, and
\* its session is open
C27_Witness ==
    /\ lcPc = "closed"
    /\ lcCrawler.cls = "PdfPoemsCrawler"
    /\ lcLog = <<TRUE, FALSE>>
    /\ lcCrawler._session = "open"

----------------------------------------------------------------------------
(* Segmentation and the text of the stream *)

\* how often the line occurs in the stream
InStream(line) == Cardinality({pos \in 1..Len(pdfLines) : pdfLines[pos] = line})

\* how often the line occurs in the titles and the bodies of the works
InWorks(line) ==
    Cardinality({w \in (1..Len(pdfPoems)) \X {"title", "text_full"} \X (1..MaxLines) :
                    /\ w[3] <= Len(pdfPoems[w[1]][w[2]])
                    /\ pdfPoems[w[1]][w[2]][w[3]] = line})

\* C28 as stated: segmentation loses no text; every non-blank line of the
\* stream is in the title or the body of an emitted work, the lines before
\* the first detected title and the title blocks without a body included
\* (the site token, which clean() trims, set aside).
C28_NoTextLost ==
    pdfPc = "done" =>
        \A line \in PdfLineKinds \ {"", "siir arsivi", "SIIR ARSIVI"} :
            InWorks(line) >= InStream(line)

\* the stream AH / blank / ANNEM / bir gun gave one work, ANNEM with the body
\* "bir gun"; the line AH before the first title is in no work
C28_Witness ==
    /\ pdfPc = "done"
    /\ pdfLines = <<"AH", "", "ANNEM", "bir gun">>
    /\ Len(pdfPoems) = 1
    /\ pdfPoems[1].title = <<"ANNEM">> /\ pdfPoems[1].text_full = <<"bir gun">>

\* the stream ANNEM / blank / ANNEM / bir gun gave one work: the first title
\* block, which has no body, is in no work
C28_TitleWitness ==
    /\ pdfPc = "done"
    /\ pdfLines = <<"ANNEM", "", "ANNEM", "bir gun">>
    /\ Len(pdfPoems) = 1

----------------------------------------------------------------------------
(* Crawler output and the validation layer *)

\* the payload extract returns for a parsed news record, with safe mode on
\* or off, for the link L1 of the source "site"
NewsPayload(record, safe_mode) ==
    _finalize_payload([cls |-> "NewsCrawler", safe_mode |-> safe_mode, _seen_hashes |-> {}],
                      record, "L1", "site")

\* build_document on the normalized payload
Validated(payload) == build_document(NormalizeItem(payload, 1), 1, 1)

\* C29 as stated, for the news crawler: every payload its extract emits,
\* with safe mode on or off, is accepted by the validation layer after
\* normalize_records.
C29_PayloadsAccepted ==
    newsPc = "done" =>
        \A j \in 1..Len(newsDocuments), safe_mode \in BOOLEAN :
            Validated(NewsPayload(newsDocuments[j], safe_mode)).ok

\* what holds: a news payload that has a title and a body with text is
\* accepted, with safe mode on or off
C29_TitledAccepted ==
    newsPc = "done" =>
        \A j \in 1..Len(newsDocuments), safe_mode \in BOOLEAN :
            (newsDocuments[j].title # "" /\ HasText(newsDocuments[j].text_full))
                => Validated(NewsPayload(newsDocuments[j], safe_mode)).ok

\* a card without a title element gave a record with a body and an empty
\* title, and build_document rejects its normalized payload
C29_Witness ==
    /\ newsPc = "done"
    /\ Len(newsDocuments) = 1
    /\ newsDocuments[1].title = "" /\ newsDocuments[1].text_full = <<"b">>
    /\ ~Validated(NewsPayload(newsDocuments[1], FALSE)).ok

----------------------------------------------------------------------------
(* Properties of mkhash *)

\* C30 as stated: two tuples of parts that differ in at least one part are
\* never joined into the same hashed string, so they never get the same hash.
C30_MkhashInjective ==
    mhPc = "done" => (mhFirst # mhSecond => mhHashes[1] # mhHashes[2])

\* what holds: tuples whose parts hold no "|" get the same hash only when
\* they are the same tuple
C30_InjectiveWithoutBar ==
    (/\ mhPc = "done"
     /\ \A k \in 1..3 : \A m \in 1..Len(mhFirst[k]) : mhFirst[k][m] # "|"
     /\ \A k \in 1..3 : \A m \in 1..Len(mhSecond[k]) : mhSecond[k][m] # "|")
        => (mhFirst # mhSecond => mhHashes[1] # mhHashes[2])

\* ("|", "", "") and ("", "|", "") were hashed and got the same hash
C30_Witness ==
    /\ mhPc = "done"
    /\ mhFirst = <<<<"|">>, << >>, << >>>>
    /\ mhSecond = <<<< >>, <<"|">>, << >>>>
    /\ mhHashes[1] = mhHashes[2]

====
